---- MODULE Spec2Model ----
(***************************************************************************)
(* node-janitor: the scan-filter-clean pipeline.                           *)
(*                                                                         *)
(* Strings that the program parses or matches (durations, sizes, ranges,   *)
(* paths, exclude patterns) are sequences of one-character strings, so     *)
(* that parsing and matching are computed character by character as the    *)
(* code's regular expressions do.                                          *)
(***************************************************************************)
EXTENDS Integers, Sequences, FiniteSets, TLC

VARIABLES
    folders,          \* cleanNodeModules: the `folders` argument
    options,          \* cleanNodeModules: the `options` argument
    pc,               \* position of the cleanNodeModules call
    filteredFolders,  \* cleanNodeModules: local `filteredFolders`
    result,           \* cleanNodeModules: local `result` / the value returned
    queue,            \* p-limit: indices of the tasks waiting for a slot
    active,           \* p-limit: indices of the tasks running (deleteFunc in flight)
    fs,               \* the node_modules directories that exist on disk
    manifest,         \* the backup manifests written so far (a sequence)
    thrown,           \* the error cleanNodeModules rejected with, if any
    calls,            \* how many times the caller has invoked cleanNodeModules
    prev,             \* the results of the caller's earlier invocations
    tree,             \* the directories below the scan root (paths relative to it)
    scanOptions,      \* scanNodeModules: the `options` argument
    scanPc,           \* position of the scanNodeModules call
    scanResult,       \* the records scanNodeModules returns
    strategy,         \* the discovery strategy that produced scanResult
    findStatus,       \* how the native find process of the call ended
    disk0,            \* deepClean: the entries below node_modules when it was called
    disk,             \* deepClean: the entries below node_modules now
    deepOptions,      \* deepClean: the `options` argument
    deepPc,           \* position of the deepClean call
    packages,         \* deepClean: local `packages`
    pkgIdx,           \* deepClean: index of the package the for loop is at
    deepResult,       \* deepClean: local `result` / the value returned
    deepPrev,         \* the results of the caller's earlier deepClean calls
    given,            \* the filter stage: the list the caller passes in
    filterArgs,       \* the filter stage: the bounds and flags the caller passes
    kept,             \* the filter stage: the list returned by the last filter
    applied,          \* the filter stage: the filters applied so far, in order
    parseInput,       \* formatter: the string handed to a parsing helper
    parseOutcome,     \* formatter: what the parsing helper returned or threw
    clock,            \* the system clock, in half days
    mtime,            \* the modification time fs.stat reports for node_modules
    info,             \* getNodeModulesInfo: lastModified and ageDays of the record
    cliOptions,       \* mergeOptions: the `cliOptions` argument
    config,           \* mergeOptions: the `config` argument
    merged,           \* mergeOptions: the value returned
    job,              \* the periodic command running: watch or schedule
    watchOptions,     \* its options: onClean, dryRun, olderThanDays
    present,          \* the node_modules directories below the watched path
    state,            \* the WatchState / ScheduleStats object of the command
    passes,           \* the passes of the command: position, folders, return value
    cleanCalls,       \* how many times a pass has invoked cleanNodeModules
    removed,          \* the directories the passes took off the disk, and their bytes
    overlapped,       \* whether a pass has started while another was in flight
    stopped           \* the summary printed on SIGINT, once the command is stopped

cleanVars == <<folders, options, pc, filteredFolders, result, queue, active,
               fs, manifest, thrown, calls, prev>>

scanVars == <<tree, scanOptions, scanPc, scanResult, strategy, findStatus>>

deepVars == <<disk0, disk, deepOptions, deepPc, packages, pkgIdx, deepResult,
              deepPrev>>

filterVars == <<given, filterArgs, kept, applied>>

parseVars == <<parseInput, parseOutcome>>

ageVars == <<clock, mtime, info>>

configVars == <<cliOptions, config, merged>>

watchVars == <<job, watchOptions, present, state, passes, cleanCalls, removed,
               overlapped, stopped>>

\* the helpers and commands around the pipeline
toolVars == <<parseVars, ageVars, configVars, watchVars>>

\* the scan-filter-clean pipeline
pipelineVars == <<cleanVars, scanVars, deepVars, filterVars>>

vars == <<cleanVars, scanVars, deepVars, filterVars, toolVars>>

-----------------------------------------------------------------------------
(* Bounds of the model *)

\* at most this many records are passed to one cleanNodeModules call
MaxFolders == 3
\* the `parallel` option ranges over 0..MaxParallel
MaxParallel == 2
\* the caller invokes a dry run at most this many times on one input
MaxCalls == 2
\* a scanned tree holds at most this many directories below the root
MaxDirs == 5
\* the `depth` option ranges over undefined and 0..MaxDepth
MaxDepth == 2
\* a deepClean fixture holds at most this many entries below node_modules
MaxEntries == 5
\* at most this many records are passed to a filter called on its own
MaxRecords == 3
\* a periodic command (watch, schedule) runs at most this many passes
MaxPasses == 3

-----------------------------------------------------------------------------
(* JavaScript values *)

\* `undefined` for an optional string
Undefined == <<"undefined">>
\* `undefined` for an optional number (minAgeDays?, maxAgeDays?, minSize?, maxSize?)
UndefinedNum == -1

\* JavaScript truthiness of an optional string: undefined and "" are falsy
Truthy(s) == s # Undefined /\ s # <<>>

Digits == {"0", "1", "2", "3", "4", "5", "6", "7", "8", "9"}

DigitVal(c) ==
    CASE c = "0" -> 0 [] c = "1" -> 1 [] c = "2" -> 2 [] c = "3" -> 3
      [] c = "4" -> 4 [] c = "5" -> 5 [] c = "6" -> 6 [] c = "7" -> 7
      [] c = "8" -> 8 [] c = "9" -> 9

AllDigits(s) == \A i \in 1..Len(s) : s[i] \in Digits

\* parseInt(s, 10) / the integer part of parseFloat, for a string of digits
RECURSIVE DecimalValue(_)
DecimalValue(s) ==
    IF s = <<>> THEN 0
    ELSE 10 * DecimalValue(SubSeq(s, 1, Len(s) - 1)) + DigitVal(s[Len(s)])

RECURSIVE Pow10(_)
Pow10(n) == IF n = 0 THEN 1 ELSE 10 * Pow10(n - 1)

\* String.prototype.toUpperCase / toLowerCase on the unit letters
ToUpper(c) ==
    CASE c = "b" -> "B" [] c = "k" -> "K" [] c = "m" -> "M" [] c = "g" -> "G"
      [] c = "t" -> "T" [] c = "d" -> "D" [] c = "w" -> "W" [] c = "y" -> "Y"
      [] OTHER -> c

Parsed(n) == [ok |-> TRUE, value |-> n]
ParseError == [ok |-> FALSE, value |-> 0]

-----------------------------------------------------------------------------
(* formatter.ts: parseDuration, parseDurationRange, parseSize *)

DurationMultiplier(u) ==
    CASE u = "D" -> 1 [] u = "W" -> 7 [] u = "M" -> 30 [] u = "Y" -> 365

\* parseDuration that takes a bare integer as a number of days
parseDurationBareDays(durationStr) ==
    LET n == Len(durationStr) IN
    IF n >= 1 /\ AllDigits(durationStr) THEN Parsed(DecimalValue(durationStr))
    ELSE IF /\ n >= 2
            /\ AllDigits(SubSeq(durationStr, 1, n - 1))
            /\ ToUpper(durationStr[n]) \in {"D", "W", "M", "Y"}
    THEN Parsed(DecimalValue(SubSeq(durationStr, 1, n - 1))
                  * DurationMultiplier(ToUpper(durationStr[n])))
    ELSE ParseError

\* /^(\d+)(d|w|m|y)$/i, then parseInt(match[1]) * multipliers[unit]
parseDuration(durationStr) ==
    LET n == Len(durationStr) IN
    IF /\ n >= 2
       /\ AllDigits(SubSeq(durationStr, 1, n - 1))
       /\ ToUpper(durationStr[n]) \in {"D", "W", "M", "Y"}
    THEN Parsed(DecimalValue(SubSeq(durationStr, 1, n - 1))
                  * DurationMultiplier(ToUpper(durationStr[n])))
    ELSE ParseError

\* String.prototype.split(sep) for a one-character separator
RECURSIVE Split(_, _)
Split(s, sep) ==
    IF \A i \in 1..Len(s) : s[i] # sep THEN <<s>>
    ELSE LET k == CHOOSE i \in 1..Len(s) :
                     s[i] = sep /\ \A j \in 1..(i - 1) : s[j] # sep
         IN <<SubSeq(s, 1, k - 1)>> \o Split(SubSeq(s, k + 1, Len(s)), sep)

\* parseDurationRange that puts the smaller half first
parseDurationRangeOrdered(rangeStr) ==
    LET parts == Split(rangeStr, "-") IN
    IF Len(parts) # 2 THEN [ok |-> FALSE, min |-> 0, max |-> 0]
    ELSE LET lo == parseDuration(parts[1])
             hi == parseDuration(parts[2])
         IN IF lo.ok /\ hi.ok
            THEN [ok |-> TRUE,
                  min |-> IF lo.value <= hi.value THEN lo.value ELSE hi.value,
                  max |-> IF lo.value <= hi.value THEN hi.value ELSE lo.value]
            ELSE [ok |-> FALSE, min |-> 0, max |-> 0]

\* rangeStr.split('-'); exactly two parts, each a duration
parseDurationRange(rangeStr) ==
    LET parts == Split(rangeStr, "-") IN
    IF Len(parts) # 2 THEN [ok |-> FALSE, min |-> 0, max |-> 0]
    ELSE LET lo == parseDuration(parts[1])
             hi == parseDuration(parts[2])
         IN IF lo.ok /\ hi.ok
            THEN [ok |-> TRUE, min |-> lo.value, max |-> hi.value]
            ELSE [ok |-> FALSE, min |-> 0, max |-> 0]

SizeUnits == {<<"B">>, <<"K", "B">>, <<"M", "B">>, <<"G", "B">>, <<"T", "B">>}

\* the k of multipliers[unit] = 1024 ** k
SizeExponent(u) ==
    CASE u = <<"B">> -> 0
      [] u = <<"K", "B">> -> 1
      [] u = <<"M", "B">> -> 2
      [] u = <<"G", "B">> -> 3
      [] u = <<"T", "B">> -> 4

RECURSIVE FloorScaled(_, _, _, _, _)
\* Math.floor((whole + frac / den) * base ** k), one factor of base at a
\* time so that no intermediate value exceeds the result times base
FloorScaled(whole, frac, den, base, k) ==
    IF k = 0 THEN whole
    ELSE FloorScaled(whole * base + (frac * base) \div den,
                     (frac * base) % den, den, base, k - 1)

UpperSeq(s) == [i \in 1..Len(s) |-> ToUpper(s[i])]

\* the length of the longest prefix of s made of characters of set
RECURSIVE PrefixIn(_, _)
PrefixIn(s, set) ==
    IF s = <<>> \/ s[1] \notin set THEN 0 ELSE 1 + PrefixIn(Tail(s), set)

\* parseSize with decimal units (1000 ** k)
parseSizeDecimal(sizeStr) ==
    LET nInt  == PrefixIn(sizeStr, Digits)
        rest1 == SubSeq(sizeStr, nInt + 1, Len(sizeStr))
        nFrac == IF Len(rest1) >= 2 /\ rest1[1] = "." /\ rest1[2] \in Digits
                 THEN PrefixIn(Tail(rest1), Digits) ELSE 0
        rest2 == IF nFrac > 0 THEN SubSeq(rest1, nFrac + 2, Len(rest1)) ELSE rest1
        nSp   == PrefixIn(rest2, {" "})
        unit  == UpperSeq(SubSeq(rest2, nSp + 1, Len(rest2)))
        whole == DecimalValue(SubSeq(sizeStr, 1, nInt))
        frac  == IF nFrac > 0 THEN DecimalValue(SubSeq(rest1, 2, nFrac + 1)) ELSE 0
        k     == SizeExponent(IF unit = <<>> THEN <<"B">> ELSE unit)
    IN IF nInt >= 1 /\ (unit = <<>> \/ unit \in SizeUnits)
       THEN Parsed(FloorScaled(whole, frac, Pow10(nFrac), 1000, k))
       ELSE ParseError

\* /^(\d+(?:\.\d+)?)\s*(B|KB|MB|GB|TB)?$/i, then
\* Math.floor(parseFloat(match[1]) * multipliers[unit || 'B'])
parseSize(sizeStr) ==
    LET nInt  == PrefixIn(sizeStr, Digits)
        rest1 == SubSeq(sizeStr, nInt + 1, Len(sizeStr))
        nFrac == IF Len(rest1) >= 2 /\ rest1[1] = "." /\ rest1[2] \in Digits
                 THEN PrefixIn(Tail(rest1), Digits) ELSE 0
        rest2 == IF nFrac > 0 THEN SubSeq(rest1, nFrac + 2, Len(rest1)) ELSE rest1
        nSp   == PrefixIn(rest2, {" "})
        unit  == UpperSeq(SubSeq(rest2, nSp + 1, Len(rest2)))
        whole == DecimalValue(SubSeq(sizeStr, 1, nInt))
        frac  == IF nFrac > 0 THEN DecimalValue(SubSeq(rest1, 2, nFrac + 1)) ELSE 0
        k     == SizeExponent(IF unit = <<>> THEN <<"B">> ELSE unit)
    IN IF nInt >= 1 /\ (unit = <<>> \/ unit \in SizeUnits)
       THEN Parsed(FloorScaled(whole, frac, Pow10(nFrac), 1024, k))
       ELSE ParseError

-----------------------------------------------------------------------------
(* scanner.ts: the filter stage *)

\* filterByAge with the comparisons made strict (a boundary slip)
filterByAgeStrict(fl, minAgeDays, maxAgeDays) ==
    LET Keep(folder) ==
            /\ ~(minAgeDays # UndefinedNum /\ folder.ageDays <= minAgeDays)
            /\ ~(maxAgeDays # UndefinedNum /\ folder.ageDays >= maxAgeDays)
    IN SelectSeq(fl, Keep)

\* folders.filter: drop below minAgeDays, drop above maxAgeDays, when given
filterByAge(fl, minAgeDays, maxAgeDays) ==
    LET Keep(folder) ==
            /\ ~(minAgeDays # UndefinedNum /\ folder.ageDays < minAgeDays)
            /\ ~(maxAgeDays # UndefinedNum /\ folder.ageDays > maxAgeDays)
    IN SelectSeq(fl, Keep)

RECURSIVE filterBySizeUpToFirstMiss(_, _, _)
\* filterBySize that stops at the first record outside the bounds
filterBySizeUpToFirstMiss(fl, minSize, maxSize) ==
    IF fl = <<>> THEN <<>>
    ELSE IF \/ (minSize # UndefinedNum /\ Head(fl).size < minSize)
            \/ (maxSize # UndefinedNum /\ Head(fl).size > maxSize)
         THEN <<>>
         ELSE <<Head(fl)>> \o filterBySizeUpToFirstMiss(Tail(fl), minSize, maxSize)

\* folders.filter: drop below minSize, drop above maxSize, when given
filterBySize(fl, minSize, maxSize) ==
    LET Keep(folder) ==
            /\ ~(minSize # UndefinedNum /\ folder.size < minSize)
            /\ ~(maxSize # UndefinedNum /\ folder.size > maxSize)
    IN SelectSeq(fl, Keep)

filterWithLockfile(fl) ==
    LET Keep(folder) ==
            folder.hasPackageLock \/ folder.hasYarnLock \/ folder.hasPnpmLock
    IN SelectSeq(fl, Keep)

\* gitStatus?: GitStatus, when git status was not collected
NoGitStatus == [defined |-> FALSE, isGitRepo |-> FALSE, isDirty |-> FALSE]

\* a collected { isGitRepo, isDirty }
GitStatus(isGitRepo, isDirty) ==
    [defined |-> TRUE, isGitRepo |-> isGitRepo, isDirty |-> isDirty]

\* filterByGitStatus that treats a record without gitStatus as dirty
filterByGitStatusDroppingUnknown(fl, skipDirty, onlyInGitRepo) ==
    LET Keep(folder) ==
            /\ ~(onlyInGitRepo
                   /\ ~(folder.gitStatus.defined /\ folder.gitStatus.isGitRepo))
            /\ ~(skipDirty
                   /\ (~folder.gitStatus.defined \/ folder.gitStatus.isDirty))
    IN SelectSeq(fl, Keep)

\* folders.filter: drop when onlyInGitRepo && !folder.gitStatus?.isGitRepo,
\* drop when skipDirty && folder.gitStatus?.isDirty
filterByGitStatus(fl, skipDirty, onlyInGitRepo) ==
    LET Keep(folder) ==
            /\ ~(onlyInGitRepo
                   /\ ~(folder.gitStatus.defined /\ folder.gitStatus.isGitRepo))
            /\ ~(skipDirty
                   /\ (folder.gitStatus.defined /\ folder.gitStatus.isDirty))
    IN SelectSeq(fl, Keep)

-----------------------------------------------------------------------------
(* cleaner.ts: cleanNodeModules *)

RECURSIVE SumSize(_)
\* folders.reduce((sum, f) => sum + f.size, 0)
SumSize(fl) == IF fl = <<>> THEN 0 ELSE fl[1].size + SumSize(Tail(fl))

\* folders.map(f => f.path)
Paths(fl) == [i \in 1..Len(fl) |-> fl[i].path]

\* const result = { deletedCount: 0, freedBytes: 0, deletedPaths: [], errors: [] }
EmptyResult ==
    [deletedCount |-> 0, freedBytes |-> 0, deletedPaths |-> <<>>,
     errors |-> <<>>, backupPath |-> Undefined]

\* The filter stage of cleanNodeModules.  Each requested option is parsed and
\* applied in the order of the code; a parse error is thrown at once.
ApplyFilters(fl, opts) ==
    LET d   == parseDuration(opts.olderThan)
        f1  == IF Truthy(opts.olderThan) /\ d.ok
               THEN filterByAge(fl, d.value, UndefinedNum) ELSE fl
        t1  == Truthy(opts.olderThan) /\ ~d.ok
        r   == parseDurationRange(opts.between)
        f2  == IF Truthy(opts.between) /\ r.ok
               THEN filterByAge(f1, r.min, r.max) ELSE f1
        t2  == Truthy(opts.between) /\ ~r.ok
        mn  == parseSize(opts.minSize)
        f3  == IF Truthy(opts.minSize) /\ mn.ok
               THEN filterBySize(f2, mn.value, UndefinedNum) ELSE f2
        t3  == Truthy(opts.minSize) /\ ~mn.ok
        mx  == parseSize(opts.maxSize)
        f4  == IF Truthy(opts.maxSize) /\ mx.ok
               THEN filterBySize(f3, UndefinedNum, mx.value) ELSE f3
        t4  == Truthy(opts.maxSize) /\ ~mx.ok
        f5  == IF opts.lockCheck THEN filterWithLockfile(f4) ELSE f4
    IN CASE t1 -> [threw |-> "Invalid duration format", folders |-> <<>>]
         [] ~t1 /\ t2 ->
                IF Len(Split(opts.between, "-")) # 2
                THEN [threw |-> "Invalid range format", folders |-> <<>>]
                ELSE [threw |-> "Invalid duration format", folders |-> <<>>]
         [] ~t1 /\ ~t2 /\ (t3 \/ t4) ->
                [threw |-> "Invalid size format", folders |-> <<>>]
         [] OTHER -> [threw |-> "none", folders |-> f5]

\* the dry-run return value with the byte total left at zero
DryRunResultNoBytes(fl) ==
    [deletedCount |-> Len(fl), freedBytes |-> 0, deletedPaths |-> Paths(fl),
     errors |-> <<>>, backupPath |-> Undefined]

\* if (options.dryRun) return { deletedCount, freedBytes, deletedPaths, errors: [] }
DryRunResult(fl) ==
    [deletedCount |-> Len(fl), freedBytes |-> SumSize(fl),
     deletedPaths |-> Paths(fl), errors |-> <<>>, backupPath |-> Undefined]

\* createBackup: lockfileType of one manifest entry
LockfileType(f) ==
    IF f.hasPackageLock THEN "npm"
    ELSE IF f.hasYarnLock THEN "yarn"
    ELSE IF f.hasPnpmLock THEN "pnpm"
    ELSE "undefined"

\* createBackup: the BackupData object handed to writeJson
BackupData(fl) ==
    [folders |-> [i \in 1..Len(fl) |->
                    [path |-> fl[i].path, size |-> fl[i].size,
                     packageJsonPath |-> <<fl[i].projectPath, "package.json">>,
                     lockfileType |-> LockfileType(fl[i])]],
     totalSize |-> SumSize(fl),
     totalFolders |-> Len(fl)]

\* `${backupsDir}/backup_${timestamp}.json`
BackupFilePath ==
    <<"~", "/", ".", "n", "o", "d", "e", "-", "j", "a", "n", "i", "t", "o",
      "r", "/", "b", "a", "c", "k", "u", "p", "s", "/", "b", "a", "c", "k",
      "u", "p", ".", "j", "s", "o", "n">>

\* const parallelLimit = options.parallel, without the `|| 1` default,
\* and one slot too many
ParallelLimitOffByOne(opts) == opts.parallel + 1

\* const parallelLimit = options.parallel || 1
ParallelLimit(opts) == IF opts.parallel = 0 THEN 1 ELSE opts.parallel

\* the success branch with the size added for a second time
RecordSuccessTwice(res, folder) ==
    [res EXCEPT !.deletedCount = @ + 1,
                !.freedBytes = @ + folder.size + folder.size,
                !.deletedPaths = Append(@, folder.path)]

\* result.deletedCount++; result.freedBytes += folder.size;
\* result.deletedPaths.push(folder.path)
RecordSuccess(res, folder) ==
    [res EXCEPT !.deletedCount = @ + 1,
                !.freedBytes = @ + folder.size,
                !.deletedPaths = Append(@, folder.path)]

\* the catch branch that swallows the error without recording it
RecordFailureDropped(res, folder, message) == res

\* the catch branch that records the failure and counts the record as deleted
RecordFailureCounted(res, folder, message) ==
    [res EXCEPT !.errors = Append(@, [path |-> folder.path, message |-> message]),
                !.deletedPaths = Append(@, folder.path),
                !.deletedCount = @ + 1]

\* catch (error) { result.errors.push({ path, message }) }
RecordFailure(res, folder, message) ==
    [res EXCEPT !.errors = Append(@, [path |-> folder.path, message |-> message])]

\* a limiter that keeps one slot back: with a limit of 1 nothing ever starts
CanStartKeepingOneBack(activeCount, concurrency) == activeCount + 1 < concurrency

\* p-limit: a queued task is started only while a slot is free
CanStart(activeCount, concurrency) == activeCount < concurrency

\* a rejected deleteFunc with no try/catch around it: the rejection reaches
\* Promise.all and the call rejects
TaskRejectionEscapes(p) == "threw"

\* try { ... await deleteFunc(...) } catch { ... }: the rejection is caught
\* inside the task, so the call stays where it is
TaskRejectionCaught(p) == p

\* a failed ensureDir / writeJson that is swallowed: deletion goes ahead
AfterBackupStepIgnoringFailure(ok, next) == next

\* result.backupPath = await createBackup(...): a rejected ensureDir or
\* writeJson rejects the call, a fulfilled one lets it continue
AfterBackupStep(ok, next) == IF ok THEN next ELSE "threw"

\* how deleteFunc(folder.path) can settle: fs.remove rejects with the OS error,
\* the native rm -rf / rd is killed after 60 s or exits non-zero
DeleteOutcomes(opts) ==
    IF opts.fast THEN {"ok", "Command failed: timeout"} ELSE {"ok", "EACCES"}

-----------------------------------------------------------------------------
(* The inputs of a cleanNodeModules call *)

\* the records of the fixture; every record has its own path, as the records of
\* one scan have
Pool ==
    << [path |-> "/p1/node_modules", projectPath |-> "/p1", size |-> 100,
        ageDays |-> 10, hasPackageLock |-> TRUE, hasYarnLock |-> FALSE,
        hasPnpmLock |-> FALSE],
       [path |-> "/p2/node_modules", projectPath |-> "/p2", size |-> 2048,
        ageDays |-> 50, hasPackageLock |-> FALSE, hasYarnLock |-> FALSE,
        hasPnpmLock |-> FALSE],
       [path |-> "/p3/node_modules", projectPath |-> "/p3", size |-> 5000,
        ageDays |-> 100, hasPackageLock |-> FALSE, hasYarnLock |-> TRUE,
        hasPnpmLock |-> FALSE],
       [path |-> "/p4/node_modules", projectPath |-> "/p4", size |-> 1024,
        ageDays |-> 30, hasPackageLock |-> FALSE, hasYarnLock |-> FALSE,
        hasPnpmLock |-> TRUE],
       [path |-> "/p5/node_modules", projectPath |-> "/p5", size |-> 0,
        ageDays |-> 0, hasPackageLock |-> TRUE, hasYarnLock |-> TRUE,
        hasPnpmLock |-> FALSE] >>

RECURSIVE PickFrom(_, _, _)
\* the records of seq whose index is in S, in the order of seq
PickFrom(seq, S, i) ==
    IF i > Len(seq) THEN <<>>
    ELSE (IF i \in S THEN <<seq[i]>> ELSE <<>>) \o PickFrom(seq, S, i + 1)

FolderInputs ==
    { PickFrom(Pool, S, 1) :
        S \in { T \in SUBSET (1..Len(Pool)) : Cardinality(T) <= MaxFolders } }

OlderThanValues ==
    { Undefined, <<>>, <<"3", "0", "d">>, <<"3", "0">> }
\* a range whose minimum exceeds its maximum
ReversedBetween == <<"5", "0", "d", "-", "1", "0", "d">>

BetweenValues ==
    { Undefined, <<"1", "0", "d", "-", "5", "0", "d">>, <<"3", "0", "d">>,
      ReversedBetween }
MinSizeValues ==
    { Undefined, <<"1", "K", "B">>, <<"b", "o", "g", "u", "s">> }
MaxSizeValues ==
    { Undefined, <<"1", "k", "b">>, <<"1", "0", "0", "X">> }

OptionInputs ==
    [ olderThan : OlderThanValues, between : BetweenValues,
      minSize : MinSizeValues, maxSize : MaxSizeValues,
      lockCheck : BOOLEAN, dryRun : BOOLEAN, backup : BOOLEAN, fast : BOOLEAN,
      parallel : 0..MaxParallel ]

\* no scan is under way while cleanNodeModules is examined
NoScanOptions ==
    [path |-> <<>>, depth |-> UndefinedNum, excludePatterns |-> <<>>,
     includePatterns |-> <<>>, quick |-> FALSE]

\* no deepClean call is under way
DeepIdle ==
    /\ disk0 = {}
    /\ disk = {}
    /\ deepOptions = [dryRun |-> FALSE, verbose |-> FALSE]
    /\ deepPc = "idle"
    /\ packages = <<>>
    /\ pkgIdx = 0
    /\ deepResult = [deletedFileCount |-> 0, processedFolders |-> 0,
                     freedBytes |-> 0,
                     deletedFiles |-> [defined |-> FALSE, paths |-> <<>>]]
    /\ deepPrev = <<>>

\* no filter of the filter stage has been called
FilterIdle ==
    /\ given = <<>>
    /\ filterArgs = [minAgeDays |-> UndefinedNum, maxAgeDays |-> UndefinedNum,
                     minSize |-> UndefinedNum, maxSize |-> UndefinedNum,
                     skipDirty |-> FALSE, onlyInGitRepo |-> FALSE]
    /\ kept = <<>>
    /\ applied = <<>>

\* no parsing helper has been called
NoOutcome ==
    [status |-> "idle", fn |-> "none", value |-> 0, min |-> 0, max |-> 0,
     message |-> "none"]

ParseIdle ==
    /\ parseInput = <<>>
    /\ parseOutcome = NoOutcome

\* no metadata is being collected
AgeIdle ==
    /\ clock = 0
    /\ mtime = [readable |-> FALSE, at |-> 0]
    /\ info = [status |-> "idle", lastModified |-> 0, ageDays |-> 0]

\* a cliOptions object with no option provided
NoCliOptions ==
    [path |-> Undefined, depth |-> UndefinedNum, olderThan |-> Undefined,
     lang |-> Undefined, exclude |-> Undefined]

\* config.ts getDefaultConfig (excludePattern is not read by mergeOptions)
getDefaultConfig ==
    [exclude |-> <<>>, defaultOlderThan |-> Undefined, defaultPath |-> Undefined,
     defaultDepth |-> UndefinedNum, lang |-> <<"e", "n">>]

\* mergeOptions has not been called
ConfigIdle ==
    /\ cliOptions = NoCliOptions
    /\ config = getDefaultConfig
    /\ merged = [defined |-> FALSE, options |-> NoCliOptions]

\* a pass that the timer has not started yet
NoPass ==
    [pc |-> "waiting", folders |-> <<>>,
     ret |-> [found |-> 0, cleaned |-> 0, freed |-> 0, errors |-> 0]]

\* createInitialWatchState / createInitialStats
createInitialState ==
    [foldersFound |-> 0, totalRuns |-> 0, totalCleaned |-> 0, totalFreed |-> 0]

NotStopped == [defined |-> FALSE, totalCleaned |-> 0, totalFreed |-> 0]

\* no periodic command is running
WatchIdle ==
    /\ job = "none"
    /\ watchOptions = [onClean |-> FALSE, dryRun |-> FALSE,
                       olderThanDays |-> UndefinedNum]
    /\ present = {}
    /\ state = createInitialState
    /\ passes = [i \in 1..MaxPasses |-> NoPass]
    /\ cleanCalls = 0
    /\ removed = [dirs |-> 0, bytes |-> 0]
    /\ overlapped = FALSE
    /\ stopped = NotStopped

\* none of the helpers and commands around the pipeline is in use
ToolsIdle == ParseIdle /\ AgeIdle /\ ConfigIdle /\ WatchIdle

\* the directories on disk before the call: every record's node_modules exists
InitialFs(fl) == { fl[i].path : i \in 1..Len(fl) }

Init ==
    /\ folders \in FolderInputs
    /\ options \in OptionInputs
    /\ pc = "start"
    /\ filteredFolders = <<>>
    /\ result = EmptyResult
    /\ queue = <<>>
    /\ active = {}
    /\ fs = InitialFs(folders)
    /\ manifest = <<>>
    /\ thrown = "none"
    /\ calls = 1
    /\ prev = <<>>
    /\ tree = {}
    /\ scanOptions = NoScanOptions
    /\ scanPc = "idle"
    /\ scanResult = <<>>
    /\ strategy = "none"
    /\ findStatus = "none"
    /\ DeepIdle
    /\ FilterIdle
    /\ ToolsIdle

-----------------------------------------------------------------------------
(* The steps of a cleanNodeModules call *)

\* filteredFolders.map((folder, index) => limit(...)): every task is queued
TaskQueue(fl) == [i \in 1..Len(fl) |-> i]

\* From the entry of cleanNodeModules to its first suspension point: the
\* filters, the dry-run return, and the choice between backup and deletion.
Call ==
    /\ pc = "start"
    /\ LET f == ApplyFilters(folders, options) IN
       IF f.threw # "none"
       THEN /\ pc' = "threw"
            /\ thrown' = f.threw
            /\ UNCHANGED <<filteredFolders, result, queue>>
       ELSE /\ filteredFolders' = f.folders
            /\ thrown' = thrown
            /\ IF options.dryRun
               THEN /\ pc' = "done"
                    /\ result' = DryRunResult(f.folders)
                    /\ queue' = queue
               ELSE IF options.backup
               THEN /\ pc' = "ensureDir"
                    /\ UNCHANGED <<result, queue>>
               ELSE /\ pc' = "deleting"
                    /\ queue' = TaskQueue(f.folders)
                    /\ result' = result
    /\ UNCHANGED <<folders, options, active, fs, manifest, calls, prev>>
    /\ UNCHANGED <<scanVars, deepVars, filterVars, toolVars>>

\* createBackup: await ensureDir(backupsDir)
EnsureDir ==
    /\ pc = "ensureDir"
    /\ \E ok \in BOOLEAN :
        /\ pc' = AfterBackupStep(ok, "writeJson")
        /\ thrown' = IF pc' = "threw" THEN "ensureDir failed" ELSE thrown
    /\ UNCHANGED <<folders, options, filteredFolders, result, queue, active,
                   fs, manifest, calls, prev>>
    /\ UNCHANGED <<scanVars, deepVars, filterVars, toolVars>>

\* createBackup: await writeJson(filepath, backupData), then the tasks are queued
WriteJson ==
    /\ pc = "writeJson"
    /\ \E ok \in BOOLEAN :
        /\ pc' = AfterBackupStep(ok, "deleting")
        /\ manifest' = IF ok THEN Append(manifest, BackupData(filteredFolders))
                       ELSE manifest
        /\ thrown' = IF pc' = "threw" THEN "writeJson failed" ELSE thrown
        /\ result' = IF pc' = "deleting" /\ ok
                     THEN [result EXCEPT !.backupPath = BackupFilePath]
                     ELSE result
        /\ queue' = IF pc' = "deleting" THEN TaskQueue(filteredFolders) ELSE queue
    /\ UNCHANGED <<folders, options, filteredFolders, active, fs, calls, prev>>
    /\ UNCHANGED <<scanVars, deepVars, filterVars, toolVars>>

\* p-limit starts the task at the head of the queue: onProgress is called and,
\* unless it throws, deleteFunc(folder.path) is in flight
StartTask ==
    /\ pc = "deleting"
    /\ queue # <<>>
    /\ CanStart(Cardinality(active), ParallelLimit(options))
    /\ LET i == Head(queue) IN
       \E progressThrows \in BOOLEAN :
          IF progressThrows
          THEN /\ result' = RecordFailure(result, filteredFolders[i],
                                          "onProgress threw")
               /\ pc' = TaskRejectionCaught(pc)
               /\ active' = active
          ELSE /\ active' = active \cup {i}
               /\ UNCHANGED <<result, pc>>
    /\ queue' = Tail(queue)
    /\ thrown' = IF pc' = "threw" THEN "deletion failed" ELSE thrown
    /\ UNCHANGED <<folders, options, filteredFolders, fs, manifest, calls, prev>>
    /\ UNCHANGED <<scanVars, deepVars, filterVars, toolVars>>

\* deleteFunc(folder.path) settles and the rest of the task runs
SettleTask ==
    /\ pc = "deleting"
    /\ \E i \in active :
       \E outcome \in DeleteOutcomes(options) :
          /\ active' = active \ {i}
          /\ IF outcome = "ok"
             THEN /\ result' = RecordSuccess(result, filteredFolders[i])
                  /\ fs' = fs \ {filteredFolders[i].path}
                  /\ pc' = pc
             ELSE /\ result' = RecordFailure(result, filteredFolders[i], outcome)
                  /\ fs' = fs
                  /\ pc' = TaskRejectionCaught(pc)
    /\ thrown' = IF pc' = "threw" THEN "deletion failed" ELSE thrown
    /\ UNCHANGED <<folders, options, filteredFolders, queue, manifest, calls, prev>>
    /\ UNCHANGED <<scanVars, deepVars, filterVars, toolVars>>

\* await Promise.all(deletePromises); return result
Return ==
    /\ pc = "deleting"
    /\ queue = <<>>
    /\ active = {}
    /\ pc' = "done"
    /\ UNCHANGED <<folders, options, filteredFolders, result, queue, active,
                   fs, manifest, thrown, calls, prev>>
    /\ UNCHANGED <<scanVars, deepVars, filterVars, toolVars>>

\* the caller runs the same dry run again on the same records
Repeat ==
    /\ pc = "done"
    /\ options.dryRun
    /\ calls < MaxCalls
    /\ calls' = calls + 1
    /\ prev' = Append(prev, result)
    /\ pc' = "start"
    /\ result' = EmptyResult
    /\ filteredFolders' = <<>>
    /\ UNCHANGED <<folders, options, queue, active, fs, manifest, thrown>>
    /\ UNCHANGED <<scanVars, deepVars, filterVars, toolVars>>

Next ==
    \/ Call
    \/ EnsureDir
    \/ WriteJson
    \/ StartTask
    \/ SettleTask
    \/ Return
    \/ Repeat

Spec == Init /\ [][Next]_vars

-----------------------------------------------------------------------------
(* Vocabulary of the properties *)

Range(seq) == { seq[i] : i \in 1..Len(seq) }

ErrorPaths(res) == { res.errors[i].path : i \in 1..Len(res.errors) }

\* the call has returned from a live (non-dry-run) run
LiveDone == pc = "done" /\ ~options.dryRun

\* an option the caller supplied (anything but undefined)
Supplied(s) == s # Undefined

\* the filters the claims speak of, stated on one record
AgeAtLeast(f, s) == f.ageDays >= parseDuration(s).value
AgeWithin(f, s) ==
    /\ parseDurationRange(s).min <= f.ageDays
    /\ f.ageDays <= parseDurationRange(s).max
SizeAtLeast(f, s) == f.size >= parseSize(s).value
SizeAtMost(f, s) == f.size <= parseSize(s).value
HasLockfile(f) == f.hasPackageLock \/ f.hasYarnLock \/ f.hasPnpmLock

\* every supplied filter string is well formed
WellFormed(opts) ==
    /\ Supplied(opts.olderThan) => parseDuration(opts.olderThan).ok
    /\ Supplied(opts.between) => parseDurationRange(opts.between).ok
    /\ Supplied(opts.minSize) => parseSize(opts.minSize).ok
    /\ Supplied(opts.maxSize) => parseSize(opts.maxSize).ok

\* the record satisfies every requested filter
SatisfiesAll(f, opts) ==
    /\ Supplied(opts.olderThan) => AgeAtLeast(f, opts.olderThan)
    /\ Supplied(opts.between) => AgeWithin(f, opts.between)
    /\ Supplied(opts.minSize) => SizeAtLeast(f, opts.minSize)
    /\ Supplied(opts.maxSize) => SizeAtMost(f, opts.maxSize)
    /\ opts.lockCheck => HasLockfile(f)

\* the input records that satisfy every requested filter, in input order
Expected(fl, opts) == LET Keep(f) == SatisfiesAll(f, opts) IN SelectSeq(fl, Keep)

\* the records of fl whose path is in P, and their total size
SizeOfPaths(fl, P) == LET Keep(f) == f.path \in P IN SumSize(SelectSeq(fl, Keep))

\* no directory of the input has been removed and none is being removed
NothingDeleted == fs = InitialFs(folders) /\ active = {}

\* some deletion task has been started
DeletionStarted ==
    pc \in {"deleting", "done"} /\ Len(queue) < Len(filteredFolders)

ParseErrors ==
    {"Invalid duration format", "Invalid range format", "Invalid size format"}
BackupErrors == {"ensureDir failed", "writeJson failed"}

-----------------------------------------------------------------------------
(* C1: after a live cleanNodeModules call has returned, deletedCount plus    *)
(* the number of error entries equals the number of records that survived   *)
(* filtering, whatever deletions failed and in whatever order they settled. *)
C1_Partition ==
    LiveDone =>
        result.deletedCount + Len(result.errors) = Len(filteredFolders)

C1_Witness ==
    /\ LiveDone
    /\ Len(filteredFolders) = 3
    /\ result.deletedCount = 2
    /\ Len(result.errors) = 1
    /\ options.parallel = 2

(* C2: the number of deletions in flight never exceeds the `parallel`       *)
(* option (1 when it is unset or 0): a task leaves the queue only while     *)
(* fewer than that many are running.                                        *)
C2_BoundedConcurrency ==
    Cardinality(active) <= (IF options.parallel = 0 THEN 1 ELSE options.parallel)

C2_Witness ==
    /\ options.parallel = 2
    /\ Cardinality(active) = 2
    /\ queue # <<>>

(* C3: on a live run with backup requested, once any deletion has started   *)
(* a manifest listing every filtered record has been written; and when the  *)
(* call throws because ensureDir or writeJson failed, no directory has been *)
(* deleted and no deletion is in flight.                                    *)
C3_BackupBeforeDelete ==
    /\ (options.backup /\ ~options.dryRun /\ DeletionStarted) =>
          /\ manifest # <<>>
          /\ LET m == manifest[Len(manifest)] IN
                /\ m.totalFolders = Len(filteredFolders)
                /\ \A i \in 1..Len(filteredFolders) :
                      /\ m.folders[i].path = filteredFolders[i].path
                      /\ m.folders[i].size = filteredFolders[i].size
    /\ (options.backup /\ ~options.dryRun /\ pc \in {"ensureDir", "writeJson"}) =>
          NothingDeleted
    /\ (pc = "threw" /\ thrown \in BackupErrors) =>
          NothingDeleted /\ result.deletedCount = 0 /\ result.errors = <<>>

C3_Witness ==
    /\ options.backup
    /\ pc = "deleting"
    /\ active # {}
    /\ manifest # <<>>
    /\ Len(filteredFolders) >= 2

(* C4: with dryRun=true nothing is deleted and no manifest is written, even *)
(* with backup=true, and the value returned has deletedCount = the number   *)
(* of filtered records, freedBytes = the sum of their sizes, deletedPaths = *)
(* their paths in filtered order, no errors and no backupPath.              *)
C4_DryRunFrame ==
    options.dryRun =>
        /\ NothingDeleted
        /\ manifest = <<>>
        /\ pc \notin {"ensureDir", "writeJson", "deleting"}
        /\ pc = "done" =>
              LET e == Expected(folders, options) IN
              /\ result.deletedCount = Len(e)
              /\ result.freedBytes = SumSize(e)
              /\ result.deletedPaths = Paths(e)
              /\ result.errors = <<>>
              /\ result.backupPath = Undefined

C4_Witness ==
    /\ options.dryRun
    /\ options.backup
    /\ pc = "done"
    /\ result.deletedCount = 2
    /\ result.freedBytes > 0

(* C5 as stated: a live run that has returned reports the same deletedCount *)
(* and freedBytes as a dry run on the same records and options.             *)
C5_DryEqualsLive ==
    LiveDone =>
        LET dry == DryRunResult(ApplyFilters(folders, options).folders) IN
        /\ result.deletedCount = dry.deletedCount
        /\ result.freedBytes = dry.freedBytes

(* C5 amended: a live run that has returned reports the dry run's           *)
(* deletedCount less the number of failed deletions and the dry run's       *)
(* freedBytes less the sizes of the failed records, hence the same figures  *)
(* when no deletion fails; and a repeated dry run returns what the earlier  *)
(* one returned.                                                            *)
C5_DryMatchesLiveUpToFailures ==
    /\ LiveDone =>
          LET dry == DryRunResult(ApplyFilters(folders, options).folders) IN
          /\ result.deletedCount + Len(result.errors) = dry.deletedCount
          /\ result.freedBytes
               + SizeOfPaths(filteredFolders, ErrorPaths(result)) = dry.freedBytes
          /\ result.errors = <<>> =>
                /\ result.deletedCount = dry.deletedCount
                /\ result.freedBytes = dry.freedBytes
    /\ (pc = "done" /\ options.dryRun) =>
          \A k \in 1..Len(prev) : prev[k] = result

C5_Witness ==
    /\ LiveDone
    /\ result.errors = <<>>
    /\ result.deletedCount = 3
    /\ result.freedBytes > 0

(* C6: a failed deletion (deleteFunc rejecting, the native delete timing    *)
(* out, or onProgress throwing) never makes the call throw: the call throws *)
(* only for a parse or backup error, before any task has run; and once the  *)
(* call has returned every filtered record has been attempted, each failed  *)
(* one holding exactly one entry of errors.                                 *)
C6_FailuresAreData ==
    /\ pc = "threw" =>
          /\ thrown \in ParseErrors \cup BackupErrors
          /\ result.errors = <<>>
          /\ result.deletedCount = 0
    /\ LiveDone =>
          /\ \A i \in 1..Len(filteredFolders) :
                filteredFolders[i].path
                    \in Range(result.deletedPaths) \cup ErrorPaths(result)
          /\ \A j, k \in 1..Len(result.errors) :
                result.errors[j].path = result.errors[k].path => j = k
          /\ \A j \in 1..Len(result.errors) :
                result.errors[j].message
                    \in {"onProgress threw", "EACCES", "Command failed: timeout"}

C6_Witness ==
    /\ LiveDone
    /\ Len(result.errors) = 2
    /\ result.errors[1].message = "Command failed: timeout"
    /\ result.errors[2].message = "onProgress threw"
    /\ result.deletedCount = 1
    /\ result.deletedPaths[1] = filteredFolders[3].path

(* C7: after a live call has returned, deletedPaths and the paths of errors *)
(* are disjoint and together are the filtered records' paths, deletedCount  *)
(* is the length of deletedPaths, and freedBytes is the total size of the   *)
(* records in deletedPaths (a failed record adds nothing).                  *)
C7_Accounting ==
    LiveDone =>
        /\ Range(result.deletedPaths) \cap ErrorPaths(result) = {}
        /\ Range(result.deletedPaths) \cup ErrorPaths(result)
              = Range(Paths(filteredFolders))
        /\ result.deletedCount = Len(result.deletedPaths)
        /\ result.freedBytes
              = SizeOfPaths(filteredFolders, Range(result.deletedPaths))
        /\ fs = InitialFs(folders) \ Range(result.deletedPaths)

C7_Witness ==
    /\ LiveDone
    /\ Len(result.deletedPaths) = 1
    /\ Len(result.errors) = 2
    /\ result.freedBytes = 2048
    /\ SumSize(filteredFolders) > 2048

(* C8: when every supplied filter string is well formed, the records the    *)
(* call acts on are exactly the input records that satisfy all requested    *)
(* filters together: olderThan, between, minSize, maxSize and lockCheck.    *)
C8_FiltersConjoined ==
    WellFormed(options) =>
        /\ pc \in {"ensureDir", "writeJson", "deleting", "done"} =>
              filteredFolders = Expected(folders, options)
        /\ pc = "done" =>
              Range(result.deletedPaths) \cup ErrorPaths(result)
                  = Range(Paths(Expected(folders, options)))
        /\ \A i \in active : filteredFolders[i] \in Range(Expected(folders, options))

C8_Witness ==
    /\ pc = "done"
    /\ Truthy(options.olderThan) /\ Truthy(options.between)
    /\ Truthy(options.minSize) /\ Truthy(options.maxSize)
    /\ options.lockCheck
    /\ Len(folders) = 3
    /\ Len(filteredFolders) = 1
    /\ result.deletedCount = 1

(* C9: if any of olderThan, between, minSize or maxSize is supplied and     *)
(* malformed, the call throws the parse error: it never gets past its       *)
(* entry, no manifest is written and no directory is deleted.               *)
C9_MalformedThrows ==
    ~WellFormed(options) =>
        /\ pc \in {"start", "threw"}
        /\ pc = "threw" => thrown \in ParseErrors
        /\ manifest = <<>>
        /\ NothingDeleted

(* The same with the empty string set aside: a malformed filter string      *)
(* that is not empty makes the call throw before anything is written or     *)
(* deleted.                                                                 *)
C9_NonEmptyMalformedThrows ==
    (\/ Truthy(options.olderThan) /\ ~parseDuration(options.olderThan).ok
     \/ Truthy(options.between) /\ ~parseDurationRange(options.between).ok
     \/ Truthy(options.minSize) /\ ~parseSize(options.minSize).ok
     \/ Truthy(options.maxSize) /\ ~parseSize(options.maxSize).ok) =>
        /\ pc \in {"start", "threw"}
        /\ pc = "threw" => thrown \in ParseErrors
        /\ manifest = <<>>
        /\ NothingDeleted

-----------------------------------------------------------------------------
(* scanner.ts and fast-scanner.ts: discovery *)

\* directory names of the scanned trees
NodeModules == <<"n", "o", "d", "e", "_", "m", "o", "d", "u", "l", "e", "s">>
DirA == <<"a">>
DirHidden == <<".", "h">>
DirLibrary == <<"L", "i", "b", "r", "a", "r", "y">>
DirParen == <<"p", "(", "1", ")">>

\* const SKIP_FOLDERS = new Set([...])
SKIP_FOLDERS ==
    { <<".", "g", "i", "t">>, <<".", "s", "v", "n">>, <<".", "h", "g">>,
      <<".", "c", "a", "c", "h", "e">>, <<".", "n", "p", "m">>,
      <<".", "y", "a", "r", "n">>,
      <<".", "p", "n", "p", "m", "-", "s", "t", "o", "r", "e">>,
      DirLibrary,
      <<"A", "p", "p", "l", "i", "c", "a", "t", "i", "o", "n", "s">>,
      <<".", "T", "r", "a", "s", "h">> }

\* const skipFolders = ['Library', 'Applications', '.Trash', '.npm', '.yarn', '.pnpm-store']
FastSkipFolders ==
    { DirLibrary,
      <<"A", "p", "p", "l", "i", "c", "a", "t", "i", "o", "n", "s">>,
      <<".", "T", "r", "a", "s", "h">>, <<".", "n", "p", "m">>,
      <<".", "y", "a", "r", "n">>,
      <<".", "p", "n", "p", "m", "-", "s", "t", "o", "r", "e">> }

\* item.startsWith('.')
StartsWithDot(name) == Len(name) >= 1 /\ name[1] = "."

RECURSIVE PathString(_)
\* path.join / path.resolve: the absolute path of a list of segments
PathString(segs) ==
    IF segs = <<>> THEN <<>> ELSE <<"/">> \o Head(segs) \o PathString(Tail(segs))

\* String.prototype.includes
Includes(str, sub) ==
    \E j \in 0..(Len(str) - Len(sub)) :
        \A k \in 1..Len(sub) : str[j + k] = sub[k]

RECURSIVE MatchAt(_, _, _, _)
\* new RegExp(pattern.replace(/\*/g, '.*')) matched from position j of str:
\* every * of the pattern has become .*, a dot matches any character,
\* parentheses delimit a group and match nothing themselves, every other
\* character of the alphabet matches itself
MatchAt(pat, i, str, j) ==
    IF i > Len(pat) THEN TRUE
    ELSE CASE pat[i] = "*" ->
                \E k \in j..(Len(str) + 1) : MatchAt(pat, i + 1, str, k)
           [] pat[i] = "." ->
                j <= Len(str) /\ MatchAt(pat, i + 1, str, j + 1)
           [] pat[i] \in {"(", ")"} ->
                MatchAt(pat, i + 1, str, j)
           [] OTHER ->
                j <= Len(str) /\ str[j] = pat[i] /\ MatchAt(pat, i + 1, str, j + 1)

\* regex.test(str): a match may begin anywhere
RegexTest(pat, str) == \E j \in 1..(Len(str) + 1) : MatchAt(pat, 1, str, j)

\* pattern.includes('*') ? regex.test(str) : str.includes(pattern)
PatternMatches(pattern, str) ==
    IF \E i \in 1..Len(pattern) : pattern[i] = "*"
    THEN RegexTest(pattern, str)
    ELSE Includes(str, pattern)

\* patterns.some(pattern => ...)
SomePatternMatches(patterns, str) ==
    \E n \in 1..Len(patterns) : PatternMatches(patterns[n], str)

\* fs.readdir(dir): the names of the directories in dir, in directory order
ReaddirOrder == <<DirHidden, DirLibrary, DirA, NodeModules, DirParen>>

Readdir(t, dir) ==
    LET Present(name) == Append(dir, name) \in t IN SelectSeq(ReaddirOrder, Present)

RECURSIVE ScanDir(_, _, _, _)
RECURSIVE ScanItems(_, _, _, _, _)

\* scanNodeModulesJS.scan(dir, depth): the node_modules found in and below
\* dir, in the order they are pushed
ScanDir(t, opts, dir, depth) ==
    IF opts.depth # UndefinedNum /\ depth > opts.depth THEN <<>>
    ELSE ScanItems(t, opts, dir, depth, Readdir(t, dir))

\* the for loop of scan over the items of one directory
ScanItems(t, opts, dir, depth, items) ==
    IF items = <<>> THEN <<>>
    ELSE LET item == Head(items)
             itemSegs == Append(dir, item)
             itemPath == PathString(opts.path \o itemSegs)
             found ==
                 IF StartsWithDot(item) \/ item \in SKIP_FOLDERS THEN <<>>
                 ELSE IF SomePatternMatches(opts.excludePatterns, itemPath) THEN <<>>
                 ELSE IF item = NodeModules THEN <<itemSegs>>
                 ELSE ScanDir(t, opts, itemSegs, depth + 1)
         IN found \o ScanItems(t, opts, dir, depth, Tail(items))

\* the order in which find prints the directories of the fixture
FindOrder ==
    << <<NodeModules>>,
       <<DirA>>, <<DirA, NodeModules>>, <<DirA, NodeModules, NodeModules>>,
       <<DirA, DirA>>, <<DirA, DirA, NodeModules>>,
       <<DirHidden>>, <<DirHidden, NodeModules>>,
       <<DirLibrary>>, <<DirLibrary, NodeModules>>,
       <<DirParen>>, <<DirParen, NodeModules>> >>

\* find without -prune: every directory named node_modules within the bound
findNodeModulesNativeNoPrune(t, maxDepth) ==
    LET Printed(d) ==
            /\ d \in t
            /\ d[Len(d)] = NodeModules
            /\ maxDepth # UndefinedNum => Len(d) <= maxDepth + 1
    IN SelectSeq(FindOrder, Printed)

\* find with -maxdepth d in place of -maxdepth d+1
findNodeModulesNativeShallow(t, maxDepth) ==
    LET Printed(d) ==
            /\ d \in t
            /\ d[Len(d)] = NodeModules
            /\ \A k \in 1..(Len(d) - 1) : d[k] # NodeModules
            /\ maxDepth # UndefinedNum => Len(d) <= maxDepth
    IN SelectSeq(FindOrder, Printed)

\* find "startPath" -maxdepth d+1 -type d -name node_modules -prune:
\* the directories named node_modules that lie at most d+1 levels below the
\* start path and not inside another node_modules
findNodeModulesNative(t, maxDepth) ==
    LET Printed(d) ==
            /\ d \in t
            /\ d[Len(d)] = NodeModules
            /\ \A k \in 1..(Len(d) - 1) : d[k] # NodeModules
            /\ maxDepth # UndefinedNum => Len(d) <= maxDepth + 1
    IN SelectSeq(FindOrder, Printed)

\* the two filters of scanNodeModulesFast on one path printed by find
FastKeeps(opts, p) ==
    LET parts == Split(p, "/")
        hasHidden == \E n \in 1..Len(parts) :
                        /\ StartsWithDot(parts[n])
                        /\ parts[n] # <<".">>
                        /\ parts[n] # <<".", ".">>
        hasSystemFolder == \E n \in 1..Len(parts) : parts[n] \in FastSkipFolders
    IN /\ ~hasHidden
       /\ ~hasSystemFolder
       /\ ~SomePatternMatches(opts.excludePatterns, p)

\* getFolderSizeFast: the byte size of a node_modules of the fixture
FolderSize(segs) == 1024 * Len(segs)

\* getNodeModulesInfo / getNodeModulesInfoFast: the record of one node_modules
NodeModulesInfo(opts, segs) ==
    [path |-> PathString(opts.path \o segs),
     projectPath |-> PathString(opts.path \o SubSeq(segs, 1, Len(segs) - 1)),
     size |-> IF opts.quick THEN 0 ELSE FolderSize(segs)]

\* the include-pattern whitelist of both scanners
IncludeFilter(opts, records) ==
    LET Keep(folder) ==
            \/ SomePatternMatches(opts.includePatterns, folder.projectPath)
            \/ SomePatternMatches(opts.includePatterns, folder.path)
    IN IF Len(opts.includePatterns) > 0 THEN SelectSeq(records, Keep) ELSE records

RECURSIVE InsertBySize(_, _)
InsertBySize(sorted, r) ==
    IF sorted = <<>> THEN <<r>>
    ELSE IF Head(sorted).size >= r.size
         THEN <<Head(sorted)>> \o InsertBySize(Tail(sorted), r)
         ELSE <<r>> \o sorted

RECURSIVE SortBySize(_)
\* results.sort((a, b) => b.size - a.size), a stable sort
SortBySize(records) ==
    IF records = <<>> THEN <<>>
    ELSE InsertBySize(SortBySize(SubSeq(records, 1, Len(records) - 1)),
                      records[Len(records)])

\* scanNodeModulesJS
scanNodeModulesJS(t, opts) ==
    LET found == ScanDir(t, opts, <<>>, 0)
        results == [n \in 1..Len(found) |-> NodeModulesInfo(opts, found[n])]
    IN SortBySize(IncludeFilter(opts, results))

\* scanNodeModulesFast; findOk is whether the find process succeeded
\* (findNodeModulesNative returns [] when it did not)
scanNodeModulesFast(t, opts, findOk) ==
    LET nodeModulesPaths == IF findOk THEN findNodeModulesNative(t, opts.depth)
                            ELSE <<>>
        Keep(segs) == FastKeeps(opts, PathString(opts.path \o segs))
        filteredPaths == SelectSeq(nodeModulesPaths, Keep)
        results == [n \in 1..Len(filteredPaths) |->
                       NodeModulesInfo(opts, filteredPaths[n])]
    IN SortBySize(IncludeFilter(opts, results))

-----------------------------------------------------------------------------
(* The inputs of a scanNodeModules call *)

\* a set of directories is a tree when it holds the parent of each of them
PrefixClosed(T) ==
    \A d \in T : Len(d) > 1 => SubSeq(d, 1, Len(d) - 1) \in T

TreeInputs ==
    { T \in SUBSET { FindOrder[n] : n \in 1..Len(FindOrder) } :
        Cardinality(T) <= MaxDirs /\ PrefixClosed(T) }

\* options.path after path.resolve, as its segments: /r and /.w/r
RootInputs == { <<<<"r">>>>, <<<<".", "w">>, <<"r">>>> }

PatSlashA == <<"/", "a", "/">>
PatParenGlob == <<"*", "p", "(", "1", ")", "*">>
PatDotGlob == <<"p", ".", "1", "*">>
PatAStar == <<"a", "/", "*">>
PatNodeGlob == <<"*", "/", "a", "/", "n", "o", "d", "e", "*">>

ExcludeInputs == { <<>>, <<PatSlashA>>, <<PatParenGlob>>, <<PatDotGlob, PatAStar>> }
IncludeInputs == { <<>>, <<PatSlashA>>, <<PatNodeGlob>> }

ScanOptionInputs ==
    [ path : RootInputs, depth : {UndefinedNum} \cup (0..MaxDepth),
      excludePatterns : ExcludeInputs, includePatterns : IncludeInputs,
      quick : BOOLEAN ]

\* no cleanNodeModules call is under way while scanNodeModules is examined
NoCleanOptions ==
    [olderThan |-> Undefined, between |-> Undefined, minSize |-> Undefined,
     maxSize |-> Undefined, lockCheck |-> FALSE, dryRun |-> FALSE,
     backup |-> FALSE, fast |-> FALSE, parallel |-> 0]

InitScan ==
    /\ tree \in TreeInputs
    /\ scanOptions \in ScanOptionInputs
    /\ scanPc = "start"
    /\ scanResult = <<>>
    /\ strategy = "none"
    /\ findStatus = "none"
    /\ folders = <<>>
    /\ options = NoCleanOptions
    /\ pc = "idle"
    /\ filteredFolders = <<>>
    /\ result = EmptyResult
    /\ queue = <<>>
    /\ active = {}
    /\ fs = {}
    /\ manifest = <<>>
    /\ thrown = "none"
    /\ calls = 0
    /\ prev = <<>>
    /\ DeepIdle
    /\ FilterIdle
    /\ ToolsIdle

-----------------------------------------------------------------------------
(* The steps of a scanNodeModules call *)

\* try { fastResults = await scanNodeModulesFast(...) }: the fast results are
\* returned when there are any or when options.quick is set
ScanFast ==
    /\ scanPc = "start"
    /\ \E findOk \in BOOLEAN :
        LET fastResults == scanNodeModulesFast(tree, scanOptions, findOk) IN
        /\ findStatus' = IF findOk THEN "ok" ELSE "failed"
        /\ IF Len(fastResults) > 0 \/ scanOptions.quick
           THEN /\ scanPc' = "done"
                /\ scanResult' = fastResults
                /\ strategy' = "fast"
           ELSE /\ scanPc' = "fallback"
                /\ UNCHANGED <<scanResult, strategy>>
    /\ UNCHANGED <<tree, scanOptions>>
    /\ UNCHANGED <<cleanVars, deepVars, filterVars, toolVars>>

\* return scanNodeModulesJS(options, onProgress)
ScanJS ==
    /\ scanPc = "fallback"
    /\ scanPc' = "done"
    /\ scanResult' = scanNodeModulesJS(tree, scanOptions)
    /\ strategy' = "js"
    /\ UNCHANGED <<tree, scanOptions, findStatus>>
    /\ UNCHANGED <<cleanVars, deepVars, filterVars, toolVars>>

NextScan ==
    \/ ScanFast
    \/ ScanJS

SpecScan == InitScan /\ [][NextScan]_vars

-----------------------------------------------------------------------------
(* Vocabulary of the scan properties *)

\* the segments of a returned path that lie below the scan root and above
\* the node_modules itself
AncestorsBelowRoot(record) ==
    LET parts == Split(record.path, "/")
    IN SubSeq(parts, Len(scanOptions.path) + 2, Len(parts) - 1)

RECURSIVE GlobAt(_, _, _, _)
\* a glob whose only special character is *, matched from position j of str
GlobAt(pat, i, str, j) ==
    IF i > Len(pat) THEN TRUE
    ELSE IF pat[i] = "*"
         THEN \E k \in j..(Len(str) + 1) : GlobAt(pat, i + 1, str, k)
         ELSE j <= Len(str) /\ str[j] = pat[i] /\ GlobAt(pat, i + 1, str, j + 1)

\* the path matches the user pattern: as a substring, or as a glob with * as
\* wildcard when the pattern holds a *
MatchesUserPattern(pattern, str) ==
    IF \E i \in 1..Len(pattern) : pattern[i] = "*"
    THEN \E j \in 1..(Len(str) + 1) : GlobAt(pattern, 1, str, j)
    ELSE Includes(str, pattern)

NotUnderHiddenOrSystem(record) ==
    \A n \in 1..Len(AncestorsBelowRoot(record)) :
        /\ ~StartsWithDot(AncestorsBelowRoot(record)[n])
        /\ AncestorsBelowRoot(record)[n] \notin SKIP_FOLDERS

(* C10: no record returned by scanNodeModules lies below the scan root      *)
(* under a directory whose name starts with '.' or is on the system-folder  *)
(* denylist, and none has a path matching a user exclude pattern            *)
(* (substring, or glob with * as wildcard), whichever strategy returned it. *)
C10_NoSkippedOrExcluded ==
    scanPc = "done" =>
        \A n \in 1..Len(scanResult) :
            /\ NotUnderHiddenOrSystem(scanResult[n])
            /\ \A e \in 1..Len(scanOptions.excludePatterns) :
                  ~MatchesUserPattern(scanOptions.excludePatterns[e],
                                      scanResult[n].path)

(* The part of C10 that the code keeps: hidden and system directories are   *)
(* never returned, and a pattern without parentheses excludes every path    *)
(* it matches.                                                              *)
C10_HoldsWithoutGroups ==
    scanPc = "done" =>
        \A n \in 1..Len(scanResult) :
            /\ NotUnderHiddenOrSystem(scanResult[n])
            /\ \A e \in 1..Len(scanOptions.excludePatterns) :
                  LET pattern == scanOptions.excludePatterns[e] IN
                  (\A i \in 1..Len(pattern) : pattern[i] \notin {"(", ")"}) =>
                      ~MatchesUserPattern(pattern, scanResult[n].path)

-----------------------------------------------------------------------------
(* Vocabulary of the discovery properties *)

\* the set of node_modules paths of a list of records
PathSet(records) == { records[n].path : n \in 1..Len(records) }

\* the call returned what the native strategy found with a successful find
FastDone == scanPc = "done" /\ strategy = "fast" /\ findStatus = "ok"

\* the call returned what the manual walk found
WalkDone == scanPc = "done" /\ strategy = "js"

\* no segment of the scan root is hidden or on the fast scanner's denylist
PlainRoot ==
    \A n \in 1..Len(scanOptions.path) :
        /\ ~StartsWithDot(scanOptions.path[n])
        /\ scanOptions.path[n] \notin FastSkipFolders

\* the depth of a record's project directory, the scan root being depth 0
ProjectDepth(record) ==
    Len(Split(record.projectPath, "/")) - 1 - Len(scanOptions.path)

\* the segments of a returned path below the scan root, node_modules included
BelowRoot(record) ==
    LET parts == Split(record.path, "/")
    IN SubSeq(parts, Len(scanOptions.path) + 2, Len(parts))

(* C11: for the same tree, root and options, the native bulk-find strategy  *)
(* returns the same set of node_modules paths as the manual tree-walk,      *)
(* whatever the root path, one with a hidden or system segment included.    *)
C11_StrategiesAgree ==
    FastDone => PathSet(scanResult) = PathSet(scanNodeModulesJS(tree, scanOptions))

(* The part of C11 that the code keeps: below a root with no hidden and no  *)
(* system segment the two strategies return the same set of paths.          *)
C11_AgreeBelowPlainRoot ==
    (FastDone /\ PlainRoot) =>
        PathSet(scanResult) = PathSet(scanNodeModulesJS(tree, scanOptions))

(* C12: when the native find process fails, scanNodeModules returns the     *)
(* results of the manual tree-walk, whatever the value of the quick option. *)
C12_FallbackOnFindFailure ==
    (scanPc = "done" /\ findStatus = "failed") =>
        /\ strategy = "js"
        /\ scanResult = scanNodeModulesJS(tree, scanOptions)

(* The part of C12 that the code keeps: without quick, a failed find is     *)
(* followed by the manual walk, whose results are returned.                 *)
C12_FallbackUnlessQuick ==
    (scanPc = "done" /\ findStatus = "failed" /\ ~scanOptions.quick) =>
        /\ strategy = "js"
        /\ scanResult = scanNodeModulesJS(tree, scanOptions)

C13_WitnessWalk ==
    /\ WalkDone
    /\ <<DirA, NodeModules, NodeModules>> \in tree
    /\ PathSet(scanResult) = { PathString(scanOptions.path \o <<DirA, NodeModules>>) }

\* the options of the call with the depth limit removed
Unlimited == [scanOptions EXCEPT !.depth = UndefinedNum]

\* what the strategy that answered returns for the given options
ResultOf(opts) ==
    IF strategy = "fast" THEN scanNodeModulesFast(tree, opts, TRUE)
    ELSE scanNodeModulesJS(tree, opts)

-----------------------------------------------------------------------------
(* deep-cleaner.ts: deepClean *)

\* no cleanNodeModules call is under way
CleanIdle ==
    /\ folders = <<>>
    /\ options = NoCleanOptions
    /\ pc = "idle"
    /\ filteredFolders = <<>>
    /\ result = EmptyResult
    /\ queue = <<>>
    /\ active = {}
    /\ fs = {}
    /\ manifest = <<>>
    /\ thrown = "none"
    /\ calls = 0
    /\ prev = <<>>

\* no scanNodeModules call is under way
ScanIdle ==
    /\ tree = {}
    /\ scanOptions = NoScanOptions
    /\ scanPc = "idle"
    /\ scanResult = <<>>
    /\ strategy = "none"
    /\ findStatus = "none"

\* const DEEP_CLEAN_PATTERNS = { files: [...], extensions: [...], directories: [...] }
DEEP_CLEAN_PATTERNS ==
    [ files |->
        << <<"R", "E", "A", "D", "M", "E", ".", "m", "d">>,
           <<"R", "E", "A", "D", "M", "E", ".", "m", "a", "r", "k", "d", "o", "w", "n">>,
           <<"R", "E", "A", "D", "M", "E", ".", "t", "x", "t">>,
           <<"r", "e", "a", "d", "m", "e", ".", "m", "d">>,
           <<"r", "e", "a", "d", "m", "e", ".", "t", "x", "t">>,
           <<"C", "H", "A", "N", "G", "E", "L", "O", "G", ".", "m", "d">>,
           <<"C", "H", "A", "N", "G", "E", "L", "O", "G", ".", "t", "x", "t">>,
           <<"C", "H", "A", "N", "G", "E", "S", ".", "m", "d">>,
           <<"H", "I", "S", "T", "O", "R", "Y", ".", "m", "d">>,
           <<"L", "I", "C", "E", "N", "S", "E">>,
           <<"L", "I", "C", "E", "N", "S", "E", ".", "m", "d">>,
           <<"L", "I", "C", "E", "N", "S", "E", ".", "t", "x", "t">>,
           <<"l", "i", "c", "e", "n", "s", "e">>,
           <<"L", "I", "C", "E", "N", "C", "E">>,
           <<"L", "I", "C", "E", "N", "C", "E", ".", "m", "d">>,
           <<"C", "O", "P", "Y", "I", "N", "G">>,
           <<"A", "U", "T", "H", "O", "R", "S">>,
           <<"C", "O", "N", "T", "R", "I", "B", "U", "T", "O", "R", "S">>,
           <<".", "n", "p", "m", "i", "g", "n", "o", "r", "e">>,
           <<".", "g", "i", "t", "i", "g", "n", "o", "r", "e">>,
           <<".", "e", "s", "l", "i", "n", "t", "r", "c">>,
           <<".", "e", "s", "l", "i", "n", "t", "r", "c", ".", "j", "s">>,
           <<".", "e", "s", "l", "i", "n", "t", "r", "c", ".", "j", "s", "o", "n">>,
           <<".", "p", "r", "e", "t", "t", "i", "e", "r", "r", "c">>,
           <<".", "p", "r", "e", "t", "t", "i", "e", "r", "r", "c", ".", "j", "s">>,
           <<".", "p", "r", "e", "t", "t", "i", "e", "r", "r", "c", ".", "j", "s", "o", "n">>,
           <<".", "b", "a", "b", "e", "l", "r", "c">>,
           <<".", "e", "d", "i", "t", "o", "r", "c", "o", "n", "f", "i", "g">>,
           <<"t", "s", "c", "o", "n", "f", "i", "g", ".", "j", "s", "o", "n">>,
           <<"t", "s", "l", "i", "n", "t", ".", "j", "s", "o", "n">>,
           <<".", "t", "r", "a", "v", "i", "s", ".", "y", "m", "l">>,
           <<"a", "p", "p", "v", "e", "y", "o", "r", ".", "y", "m", "l">>,
           <<"M", "a", "k", "e", "f", "i", "l", "e">>,
           <<"G", "u", "l", "p", "f", "i", "l", "e", ".", "j", "s">>,
           <<"G", "r", "u", "n", "t", "f", "i", "l", "e", ".", "j", "s">>,
           <<"r", "o", "l", "l", "u", "p", ".", "c", "o", "n", "f", "i", "g", ".", "j", "s">>,
           <<"w", "e", "b", "p", "a", "c", "k", ".", "c", "o", "n", "f", "i", "g", ".", "j", "s">> >>,
      extensions |->
        << <<".", "m", "d">>,
           <<".", "m", "a", "r", "k", "d", "o", "w", "n">>,
           <<".", "m", "a", "p">>,
           <<".", "t", "s", ".", "m", "a", "p">>,
           <<".", "j", "s", ".", "m", "a", "p">>,
           <<".", "m", "i", "n", ".", "m", "a", "p">> >>,
      directories |->
        << <<"t", "e", "s", "t">>,
           <<"t", "e", "s", "t", "s">>,
           <<"_", "_", "t", "e", "s", "t", "s", "_", "_">>,
           <<"s", "p", "e", "c">>,
           <<"s", "p", "e", "c", "s">>,
           <<"e", "x", "a", "m", "p", "l", "e">>,
           <<"e", "x", "a", "m", "p", "l", "e", "s">>,
           <<"d", "o", "c">>,
           <<"d", "o", "c", "s">>,
           <<"d", "o", "c", "u", "m", "e", "n", "t", "a", "t", "i", "o", "n">>,
           <<"c", "o", "v", "e", "r", "a", "g", "e">>,
           <<".", "n", "y", "c", "_", "o", "u", "t", "p", "u", "t">>,
           <<".", "g", "i", "t", "h", "u", "b">>,
           <<".", "v", "s", "c", "o", "d", "e">>,
           <<".", "i", "d", "e", "a">>,
           <<"b", "e", "n", "c", "h", "m", "a", "r", "k">>,
           <<"b", "e", "n", "c", "h", "m", "a", "r", "k", "s">>,
           <<"f", "i", "x", "t", "u", "r", "e", "s">>,
           <<"_", "_", "f", "i", "x", "t", "u", "r", "e", "s", "_", "_">>,
           <<"_", "_", "m", "o", "c", "k", "s", "_", "_">> >> ]

\* names of the entries of the fixture below node_modules
Pkg == <<"p", "k", "g">>
Scope == <<"@", "s">>
Sub == <<"s", "u", "b">>
DotBin == <<".", "b", "i", "n">>
ReadmeMd == <<"R", "E", "A", "D", "M", "E", ".", "m", "d">>
MapFile == <<"a", ".", "m", "a", "p">>
LicenseFile == <<"L", "I", "C", "E", "N", "S", "E">>
Npmignore == <<".", "n", "p", "m", "i", "g", "n", "o", "r", "e">>
IndexJs == <<"i", "n", "d", "e", "x", ".", "j", "s">>
TestDir == <<"t", "e", "s", "t">>
TestJs == <<"t", ".", "j", "s">>
CoverageDir == <<"c", "o", "v", "e", "r", "a", "g", "e">>
LibDir == <<"l", "i", "b">>
SpecName == <<"s", "p", "e", "c">>

\* the entries a fixture may hold, in directory order: path below
\* node_modules, kind, and byte size of a file
DeepFixture ==
    << [path |-> <<Pkg>>, kind |-> "dir", size |-> 0],
       [path |-> <<Pkg, ReadmeMd>>, kind |-> "file", size |-> 50],
       [path |-> <<Pkg, MapFile>>, kind |-> "file", size |-> 30],
       [path |-> <<Pkg, Npmignore>>, kind |-> "file", size |-> 0],
       [path |-> <<Pkg, IndexJs>>, kind |-> "file", size |-> 20],
       [path |-> <<Pkg, TestDir>>, kind |-> "dir", size |-> 0],
       [path |-> <<Pkg, TestDir, TestJs>>, kind |-> "file", size |-> 40],
       [path |-> <<Pkg, CoverageDir>>, kind |-> "dir", size |-> 0],
       [path |-> <<Pkg, LibDir>>, kind |-> "dir", size |-> 0],
       [path |-> <<Pkg, LibDir, ReadmeMd>>, kind |-> "file", size |-> 5],
       [path |-> <<Pkg, SpecName>>, kind |-> "file", size |-> 7],
       [path |-> <<Scope>>, kind |-> "dir", size |-> 0],
       [path |-> <<Scope, Sub>>, kind |-> "dir", size |-> 0],
       [path |-> <<Scope, Sub, LicenseFile>>, kind |-> "file", size |-> 10],
       [path |-> <<Scope, ReadmeMd>>, kind |-> "file", size |-> 3],
       [path |-> <<Scope, DotBin>>, kind |-> "dir", size |-> 0],
       [path |-> <<DotBin>>, kind |-> "dir", size |-> 0],
       [path |-> <<DotBin, ReadmeMd>>, kind |-> "file", size |-> 9],
       [path |-> <<ReadmeMd>>, kind |-> "file", size |-> 4] >>

\* fs.stat(p) of an entry of the fixture
Stat(p) == CHOOSE e \in { DeepFixture[n] : n \in 1..Len(DeepFixture) } : e.path = p

\* stats.isFile() of an existing path; a missing path makes fs.stat throw
IsFile(d, p) == p \in d /\ Stat(p).kind = "file"

\* stats.isDirectory() of an existing path
IsDirectory(d, p) == p \in d /\ Stat(p).kind = "dir"

\* dir is a proper ancestor of p
Above(dir, p) == Len(dir) < Len(p) /\ SubSeq(p, 1, Len(dir)) = dir

\* fs.readdir(dir): the names of the entries directly in dir, in directory order
DeepReaddir(d, dir) ==
    LET In(e) == e.path \in d /\ Len(e.path) = Len(dir) + 1 /\ Above(dir, e.path)
        entries == SelectSeq(DeepFixture, In)
    IN [n \in 1..Len(entries) |-> entries[n].path[Len(dir) + 1]]

\* item.endsWith(ext)
EndsWith(item, ext) ==
    /\ Len(item) >= Len(ext)
    /\ SubSeq(item, Len(item) - Len(ext) + 1, Len(item)) = ext

RECURSIVE ScopedPackages(_, _)
\* for (const scopedItem of scopedItems) packages.push(path.join(itemPath, scopedItem))
ScopedPackages(itemPath, scopedItems) ==
    IF scopedItems = <<>> THEN <<>>
    ELSE <<Append(itemPath, Head(scopedItems))>>
             \o ScopedPackages(itemPath, Tail(scopedItems))

RECURSIVE PackagesOf(_, _)
\* the for loop of getPackageDirectories over the items of node_modules
PackagesOf(d, items) ==
    IF items = <<>> THEN <<>>
    ELSE LET item == Head(items)
             itemPath == <<item>>
             pushed ==
                 IF StartsWithDot(item) THEN <<>>
                 ELSE IF ~IsDirectory(d, itemPath) THEN <<>>
                 ELSE IF item[1] = "@"
                      THEN ScopedPackages(itemPath, DeepReaddir(d, itemPath))
                      ELSE <<itemPath>>
         IN pushed \o PackagesOf(d, Tail(items))

\* getPackageDirectories that does not skip the hidden items of node_modules
getPackageDirectoriesWithHidden(d) ==
    LET items == DeepReaddir(d, <<>>)
        Pushed(item) == IF ~IsDirectory(d, <<item>>) THEN <<>>
                        ELSE IF item[1] = "@"
                             THEN ScopedPackages(<<item>>, DeepReaddir(d, <<item>>))
                             ELSE << <<item>> >>
        F[n \in 0..Len(items)] == IF n = 0 THEN <<>> ELSE F[n - 1] \o Pushed(items[n])
    IN F[Len(items)]

\* getPackageDirectories(nodeModulesPath), paths relative to nodeModulesPath
getPackageDirectories(d) == PackagesOf(d, DeepReaddir(d, <<>>))

RECURSIVE CountItems(_, _)
\* the for loop of countPackages over the items of node_modules
CountItems(d, items) ==
    IF items = <<>> THEN 0
    ELSE LET item == Head(items)
             counted ==
                 IF StartsWithDot(item) THEN 0
                 ELSE IF item[1] = "@"
                      THEN Len(SelectSeq(DeepReaddir(d, <<item>>),
                                         LAMBDA i : ~StartsWithDot(i)))
                      ELSE 1
         IN counted + CountItems(d, Tail(items))

\* countPackages(nodeModulesPath)
countPackages(d) == CountItems(d, DeepReaddir(d, <<>>))

\* safeDelete(filePath, dryRun): the size returned and the entries left
safeDelete(d, filePath, dryRun) ==
    IF IsFile(d, filePath)
    THEN [freed |-> Stat(filePath).size,
          disk |-> IF dryRun THEN d ELSE d \ {filePath}]
    ELSE [freed |-> 0, disk |-> d]

RECURSIVE SumFileSizes(_)
SumFileSizes(ps) ==
    IF ps = {} THEN 0
    ELSE LET p == CHOOSE q \in ps : TRUE
         IN Stat(p).size + SumFileSizes(ps \ {p})

\* calculateSize(dirPath): the sizes of the files at any depth below dirPath
calculateSize(d, dirPath) ==
    SumFileSizes({ p \in d : Above(dirPath, p) /\ Stat(p).kind = "file" })

\* safeDeleteDir(dirPath, dryRun): the size returned and the entries left
safeDeleteDir(d, dirPath, dryRun) ==
    IF IsDirectory(d, dirPath)
    THEN [freed |-> calculateSize(d, dirPath),
          disk |-> IF dryRun THEN d
                   ELSE { p \in d : p # dirPath /\ ~Above(dirPath, p) }]
    ELSE [freed |-> 0, disk |-> d]

\* if (freed > 0) { result.deletedFileCount++; result.freedBytes += freed;
\*                  result.deletedFiles?.push(path) }
Account(res, freed, p) ==
    IF freed > 0
    THEN [res EXCEPT !.deletedFileCount = @ + 1,
                     !.freedBytes = @ + freed,
                     !.deletedFiles =
                         IF @.defined THEN [@ EXCEPT !.paths = Append(@, p)]
                         ELSE @]
    ELSE res

\* the names of a list for which fs.stat(path.join(packagePath, name)) does
\* not throw; for every other name safeDelete and safeDeleteDir return 0 from
\* their catch block and the loop body does nothing
Statable(d, packagePath, names) ==
    LET Exists(name) == Append(packagePath, name) \in d
    IN SelectSeq(names, Exists)

RECURSIVE CleanFiles(_, _, _, _)
\* for (const filename of DEEP_CLEAN_PATTERNS.files) { ... safeDelete ... }
CleanFiles(st, packagePath, filenames, dryRun) ==
    IF filenames = <<>> THEN st
    ELSE LET filePath == Append(packagePath, Head(filenames))
             del == safeDelete(st.disk, filePath, dryRun)
         IN CleanFiles([disk |-> del.disk,
                        result |-> Account(st.result, del.freed, filePath)],
                       packagePath, Tail(filenames), dryRun)

\* the first listed extension the item ends with, if any
HasListedExtension(item) ==
    \E n \in 1..Len(DEEP_CLEAN_PATTERNS.extensions) :
        EndsWith(item, DEEP_CLEAN_PATTERNS.extensions[n])

RECURSIVE CleanItems(_, _, _, _)
\* the for loop of cleanByExtension over the items read from dirPath
CleanItems(st, dirPath, items, dryRun) ==
    IF items = <<>> THEN st
    ELSE LET filePath == Append(dirPath, Head(items))
             del == IF HasListedExtension(Head(items))
                    THEN safeDelete(st.disk, filePath, dryRun)
                    ELSE [freed |-> 0, disk |-> st.disk]
         IN CleanItems([disk |-> del.disk,
                        result |-> Account(st.result, del.freed, filePath)],
                       dirPath, Tail(items), dryRun)

\* cleanByExtension(dirPath, extensions, result, options): the directory is
\* read once, before any item is removed
cleanByExtension(st, dirPath, dryRun) ==
    CleanItems(st, dirPath, DeepReaddir(st.disk, dirPath), dryRun)

RECURSIVE CleanDirectories(_, _, _, _)
\* for (const dirName of DEEP_CLEAN_PATTERNS.directories) { ... safeDeleteDir ... }
CleanDirectories(st, packagePath, dirNames, dryRun) ==
    IF dirNames = <<>> THEN st
    ELSE LET dirPath == Append(packagePath, Head(dirNames))
             del == safeDeleteDir(st.disk, dirPath, dryRun)
         IN CleanDirectories([disk |-> del.disk,
                              result |-> Account(st.result, del.freed, dirPath)],
                             packagePath, Tail(dirNames), dryRun)

-----------------------------------------------------------------------------
(* The inputs and the steps of a deepClean call *)

\* a set of entries is a tree when it holds the directory of each of them
DeepPrefixClosed(T) ==
    \A p \in T : Len(p) > 1 => SubSeq(p, 1, Len(p) - 1) \in T

DeepTreeInputs ==
    { T \in SUBSET { DeepFixture[n].path : n \in 1..Len(DeepFixture) } :
        Cardinality(T) <= MaxEntries /\ DeepPrefixClosed(T) }

InitDeep ==
    /\ disk0 \in DeepTreeInputs
    /\ disk = disk0
    /\ deepOptions \in [dryRun : BOOLEAN, verbose : BOOLEAN]
    /\ deepPc = "start"
    /\ packages = <<>>
    /\ pkgIdx = 0
    /\ deepResult = [deletedFileCount |-> 0, processedFolders |-> 0,
                     freedBytes |-> 0,
                     deletedFiles |-> [defined |-> FALSE, paths |-> <<>>]]
    /\ deepPrev = <<>>
    /\ CleanIdle
    /\ ScanIdle
    /\ FilterIdle
    /\ ToolsIdle

\* const result = {...}; const packages = await getPackageDirectories(...);
\* result.processedFolders = packages.length
DeepStart ==
    /\ deepPc = "start"
    /\ LET found == getPackageDirectories(disk) IN
        /\ packages' = found
        /\ deepResult' = [deletedFileCount |-> 0,
                          processedFolders |-> Len(found),
                          freedBytes |-> 0,
                          deletedFiles |-> [defined |-> deepOptions.verbose,
                                            paths |-> <<>>]]
        /\ deepPc' = IF Len(found) = 0 THEN "done" ELSE "files"
    /\ pkgIdx' = 1
    /\ UNCHANGED <<disk0, disk, deepOptions, deepPrev>>
    /\ UNCHANGED <<cleanVars, scanVars, filterVars, toolVars>>

\* the "Clean files" loop of the current package
DeepCleanFiles ==
    /\ deepPc = "files"
    /\ LET st == CleanFiles([disk |-> disk, result |-> deepResult],
                            packages[pkgIdx],
                            Statable(disk, packages[pkgIdx],
                                     DEEP_CLEAN_PATTERNS.files),
                            deepOptions.dryRun) IN
        /\ disk' = st.disk
        /\ deepResult' = st.result
    /\ deepPc' = "extensions"
    /\ UNCHANGED <<disk0, deepOptions, packages, pkgIdx, deepPrev>>
    /\ UNCHANGED <<cleanVars, scanVars, filterVars, toolVars>>

\* await cleanByExtension(packagePath, DEEP_CLEAN_PATTERNS.extensions, result, options)
DeepCleanByExtension ==
    /\ deepPc = "extensions"
    /\ LET st == cleanByExtension([disk |-> disk, result |-> deepResult],
                                  packages[pkgIdx], deepOptions.dryRun) IN
        /\ disk' = st.disk
        /\ deepResult' = st.result
    /\ deepPc' = "directories"
    /\ UNCHANGED <<disk0, deepOptions, packages, pkgIdx, deepPrev>>
    /\ UNCHANGED <<cleanVars, scanVars, filterVars, toolVars>>

\* the "Clean directories" loop of the current package, then the next
\* package or the return
DeepCleanDirectories ==
    /\ deepPc = "directories"
    /\ LET st == CleanDirectories([disk |-> disk, result |-> deepResult],
                                  packages[pkgIdx],
                                  Statable(disk, packages[pkgIdx],
                                           DEEP_CLEAN_PATTERNS.directories),
                                  deepOptions.dryRun) IN
        /\ disk' = st.disk
        /\ deepResult' = st.result
    /\ IF pkgIdx < Len(packages)
       THEN /\ pkgIdx' = pkgIdx + 1
            /\ deepPc' = "files"
       ELSE /\ pkgIdx' = pkgIdx
            /\ deepPc' = "done"
    /\ UNCHANGED <<disk0, deepOptions, packages, deepPrev>>
    /\ UNCHANGED <<cleanVars, scanVars, filterVars, toolVars>>

\* the caller follows a dry run with a live run on the tree the dry run left
DeepRunLive ==
    /\ deepPc = "done"
    /\ deepOptions.dryRun
    /\ deepPrev = <<>>
    /\ deepPrev' = <<deepResult>>
    /\ deepOptions' = [deepOptions EXCEPT !.dryRun = FALSE]
    /\ disk0' = disk
    /\ deepPc' = "start"
    /\ UNCHANGED <<disk, packages, pkgIdx, deepResult>>
    /\ UNCHANGED <<cleanVars, scanVars, filterVars, toolVars>>

NextDeep ==
    \/ DeepStart
    \/ DeepCleanFiles
    \/ DeepCleanByExtension
    \/ DeepCleanDirectories
    \/ DeepRunLive

SpecDeep == InitDeep /\ [][NextDeep]_vars

-----------------------------------------------------------------------------
(* Vocabulary of the deepClean properties *)

\* a package directory of the tree the call was given: a directory of
\* node_modules that is neither hidden nor a scope, or a directory in a scope
IsPackageDir(p) ==
    /\ IsDirectory(disk0, p)
    /\ \/ Len(p) = 1 /\ p[1][1] \notin {".", "@"}
       \/ Len(p) = 2 /\ p[1][1] = "@"

\* the entry's name is on the denylist of its kind
Denylisted(p) ==
    LET name == p[Len(p)] IN
    \/ /\ Stat(p).kind = "file"
       /\ \/ name \in Range(DEEP_CLEAN_PATTERNS.files)
          \/ \E n \in 1..Len(DEEP_CLEAN_PATTERNS.extensions) :
                EndsWith(name, DEEP_CLEAN_PATTERNS.extensions[n])
    \/ /\ Stat(p).kind = "dir"
       /\ name \in Range(DEEP_CLEAN_PATTERNS.directories)

\* a direct child of a package directory whose name is denylisted
Removable(p) ==
    /\ Len(p) >= 2
    /\ IsPackageDir(SubSeq(p, 1, Len(p) - 1))
    /\ Denylisted(p)

\* the entries the call removed itself: gone, while their directory is still there
RemovedEntries ==
    { p \in disk0 \ disk : Len(p) = 1 \/ SubSeq(p, 1, Len(p) - 1) \in disk }

\* the bytes an entry of the original tree holds
BytesOf(p) ==
    IF Stat(p).kind = "file" THEN Stat(p).size ELSE calculateSize(disk0, p)

\* a live deepClean call has returned
DeepLiveDone == deepPc = "done" /\ ~deepOptions.dryRun

\* a listed file name that also carries a listed extension sits in a package
DoubleMatch ==
    \E p \in disk0 :
        /\ Removable(p)
        /\ Stat(p).kind = "file"
        /\ p[Len(p)] \in Range(DEEP_CLEAN_PATTERNS.files)
        /\ HasListedExtension(p[Len(p)])

(* C15: a dry run of deepClean leaves every entry in place, and a live run  *)
(* on the same tree reports the freedBytes and the deletedFileCount the dry *)
(* run reported, whatever the packages hold.                                *)
C15_DryReportsWhatLiveReports ==
    /\ deepOptions.dryRun => disk = disk0
    /\ (deepPc = "done" /\ deepPrev # <<>>) =>
          /\ deepResult.freedBytes = deepPrev[1].freedBytes
          /\ deepResult.deletedFileCount = deepPrev[1].deletedFileCount

(* The part of C15 that the code keeps: the dry run leaves every entry in   *)
(* place, and its figures are the live run's when no package holds a file   *)
(* that is on the filename list and also carries a listed extension.        *)
C15_HoldsWithoutDoubleMatch ==
    /\ deepOptions.dryRun => disk = disk0
    /\ (deepPc = "done" /\ deepPrev # <<>> /\ ~DoubleMatch) =>
          /\ deepResult.freedBytes = deepPrev[1].freedBytes
          /\ deepResult.deletedFileCount = deepPrev[1].deletedFileCount

(* C16: after a live run deletedFileCount is the number of entries the run  *)
(* removed, a removed directory counting once whatever it holds, for        *)
(* entries of any size.                                                     *)
C16_CountsEachRemoval ==
    DeepLiveDone => deepResult.deletedFileCount = Cardinality(RemovedEntries)

(* The part of C16 that the code keeps: deletedFileCount is the number of   *)
(* removed entries that held at least one byte.                             *)
C16_CountsNonEmptyRemovals ==
    DeepLiveDone =>
        deepResult.deletedFileCount =
            Cardinality({ p \in RemovedEntries : BytesOf(p) > 0 })

-----------------------------------------------------------------------------
(* scanner.ts: the filters called on their own *)

\* the records the lists passed to the filters are made of
FilterPool ==
    { [path |-> <<"/", "f", "1">>, size |-> 0, ageDays |-> 10,
       gitStatus |-> NoGitStatus],
      [path |-> <<"/", "f", "2">>, size |-> 1024, ageDays |-> 30,
       gitStatus |-> GitStatus(TRUE, FALSE)],
      [path |-> <<"/", "f", "3">>, size |-> 2048, ageDays |-> 50,
       gitStatus |-> GitStatus(TRUE, TRUE)],
      [path |-> <<"/", "f", "4">>, size |-> 5000, ageDays |-> 100,
       gitStatus |-> GitStatus(FALSE, FALSE)] }

\* the lists of distinct records of the pool, in any order
FilterInputs ==
    UNION { { fl \in [1..n -> FilterPool] :
                \A i, j \in 1..n : fl[i] = fl[j] => i = j } : n \in 0..MaxRecords }

\* minAgeDays?, maxAgeDays?, minSize?, maxSize?, skipDirty, onlyInGitRepo
FilterArgInputs ==
    [ minAgeDays : {UndefinedNum, 30, 50}, maxAgeDays : {UndefinedNum, 30, 50},
      minSize : {UndefinedNum, 1024}, maxSize : {UndefinedNum, 2048},
      skipDirty : BOOLEAN, onlyInGitRepo : BOOLEAN ]

InitFilter ==
    /\ given \in FilterInputs
    /\ filterArgs \in FilterArgInputs
    /\ kept = given
    /\ applied = <<>>
    /\ CleanIdle
    /\ ScanIdle
    /\ DeepIdle
    /\ ToolsIdle

\* kept = filterByAge(kept, minAgeDays, maxAgeDays)
CallFilterByAge ==
    /\ "age" \notin { applied[n] : n \in 1..Len(applied) }
    /\ kept' = filterByAge(kept, filterArgs.minAgeDays, filterArgs.maxAgeDays)
    /\ applied' = Append(applied, "age")
    /\ UNCHANGED <<given, filterArgs>>
    /\ UNCHANGED <<cleanVars, scanVars, deepVars, toolVars>>

\* kept = filterBySize(kept, minSize, maxSize)
CallFilterBySize ==
    /\ "size" \notin { applied[n] : n \in 1..Len(applied) }
    /\ kept' = filterBySize(kept, filterArgs.minSize, filterArgs.maxSize)
    /\ applied' = Append(applied, "size")
    /\ UNCHANGED <<given, filterArgs>>
    /\ UNCHANGED <<cleanVars, scanVars, deepVars, toolVars>>

\* kept = filterByGitStatus(kept, skipDirty, onlyInGitRepo)
CallFilterByGitStatus ==
    /\ "git" \notin { applied[n] : n \in 1..Len(applied) }
    /\ kept' = filterByGitStatus(kept, filterArgs.skipDirty,
                                 filterArgs.onlyInGitRepo)
    /\ applied' = Append(applied, "git")
    /\ UNCHANGED <<given, filterArgs>>
    /\ UNCHANGED <<cleanVars, scanVars, deepVars, toolVars>>

NextFilter ==
    \/ CallFilterByAge
    \/ CallFilterBySize
    \/ CallFilterByGitStatus

SpecFilter == InitFilter /\ [][NextFilter]_vars

-----------------------------------------------------------------------------
(* Vocabulary of the filter properties *)

\* minDays <= ageDays <= maxDays, an omitted bound imposing nothing
InAgeBounds(r) ==
    /\ filterArgs.minAgeDays = UndefinedNum \/ filterArgs.minAgeDays <= r.ageDays
    /\ filterArgs.maxAgeDays = UndefinedNum \/ r.ageDays <= filterArgs.maxAgeDays

InSizeBounds(r) ==
    /\ filterArgs.minSize = UndefinedNum \/ filterArgs.minSize <= r.size
    /\ filterArgs.maxSize = UndefinedNum \/ r.size <= filterArgs.maxSize

\* the record passes the git flags of the call
PassesGitFlags(r) ==
    /\ filterArgs.skipDirty => ~(r.gitStatus.defined /\ r.gitStatus.isDirty)
    /\ filterArgs.onlyInGitRepo => (r.gitStatus.defined /\ r.gitStatus.isGitRepo)

\* the position of a record in a list of distinct records
PositionIn(fl, r) == CHOOSE i \in 1..Len(fl) : fl[i] = r

\* out holds exactly the records of fl that satisfy P, once each, in the
\* order they have in fl
IsSelection(out, fl, P(_)) ==
    /\ \A i \in 1..Len(fl) : P(fl[i]) <=> fl[i] \in Range(out)
    /\ \A i \in 1..Len(out) : out[i] \in Range(fl)
    /\ \A i, j \in 1..Len(out) :
          i < j => PositionIn(fl, out[i]) < PositionIn(fl, out[j])

(* C18: filterByAge then filterBySize returns the list that filterBySize    *)
(* then filterByAge returns, for every list and every choice of bounds,     *)
(* omitted bounds included.                                                 *)
C18_AgeSizeCommute ==
    /\ applied = <<"age", "size">> =>
          kept = filterByAge(filterBySize(given, filterArgs.minSize,
                                          filterArgs.maxSize),
                             filterArgs.minAgeDays, filterArgs.maxAgeDays)
    /\ applied = <<"size", "age">> =>
          kept = filterBySize(filterByAge(given, filterArgs.minAgeDays,
                                          filterArgs.maxAgeDays),
                              filterArgs.minSize, filterArgs.maxSize)

C18_Witness ==
    /\ applied = <<"size", "age">>
    /\ filterArgs.maxAgeDays = UndefinedNum
    /\ Len(kept) >= 1
    /\ Len(filterBySize(given, filterArgs.minSize, filterArgs.maxSize)) < Len(given)
    /\ Len(kept) < Len(filterBySize(given, filterArgs.minSize, filterArgs.maxSize))

(* C19: filterByAge returns, in input order, exactly the records with       *)
(* minDays <= ageDays <= maxDays, both bounds inclusive and an omitted      *)
(* bound imposing nothing; filterBySize does the same on size; and no call  *)
(* of a filter changes the list it was given.                               *)
C19_InclusiveSelection ==
    /\ [](/\ applied = <<"age">> => IsSelection(kept, given, InAgeBounds)
          /\ applied = <<"size">> => IsSelection(kept, given, InSizeBounds))
    /\ [][given' = given]_vars

C19_Witness ==
    /\ applied = <<"age">>
    /\ Len(kept) = 2
    /\ Len(given) = 3
    /\ kept[1].ageDays = filterArgs.maxAgeDays
    /\ kept[2].ageDays = filterArgs.minAgeDays

(* C20: filterByGitStatus drops a record when skipDirty is set and its      *)
(* gitStatus.isDirty is true, and when onlyInGitRepo is set and it has no   *)
(* gitStatus or gitStatus.isGitRepo is false; it keeps every other record,  *)
(* so a record without gitStatus is kept under skipDirty alone and every    *)
(* record is kept with both flags false.                                    *)
C20_GitStatusFilter ==
    applied = <<"git">> =>
        /\ IsSelection(kept, given, PassesGitFlags)
        /\ (~filterArgs.skipDirty /\ ~filterArgs.onlyInGitRepo) => kept = given
        /\ (filterArgs.skipDirty /\ ~filterArgs.onlyInGitRepo) =>
              \A i \in 1..Len(given) :
                  ~given[i].gitStatus.defined => given[i] \in Range(kept)

C20_Witness ==
    /\ applied = <<"git">>
    /\ filterArgs.skipDirty
    /\ ~filterArgs.onlyInGitRepo
    /\ \E i \in 1..Len(kept) : ~kept[i].gitStatus.defined
    /\ \E i \in 1..Len(given) : given[i].gitStatus.isDirty
    /\ Len(kept) < Len(given)

-----------------------------------------------------------------------------
(* formatter.ts: the parsing helpers called on their own *)

\* a duration string handed to a helper has at most this many characters
MaxDurationLen == 3
\* a size string handed to a helper has at most this many characters
MaxSizeLen == 4

StringsUpTo(alphabet, n) == UNION { [1..k -> alphabet] : k \in 0..n }

DurationAlphabet == {"3", "0", "d", "D", "w", "m", "y", "Y", "x", "-"}
SizeAlphabet == {"1", "5", ".", "K", "k", "B", "b", "M", " "}

\* the strings of the formatter tests and of the documentation
DurationExamples == {
    <<"3", "0", "d">>, <<"2", "w">>, <<"1", "m">>, <<"1", "y">>,
    <<"4", "w">>, <<"3", "m">>, <<"3", "0">>, <<"x", "y", "z">>,
    <<"3", "0", "D">>, <<"1", "Y">>, <<"i", "n", "v", "a", "l", "i", "d">> }
SizeExamples == {
    <<"5", "0", "0", "M", "B">>, <<"1", ".", "5", "K", "B">>,
    <<"b", "o", "g", "u", "s">>, <<"1", "K", "B">>, <<"1", "0", "0", "B">>,
    <<"1", "0", "0">>, <<"1", "M", "B">>, <<"1", "G", "B">>,
    <<"1", ".", "5", "G", "B">>, <<"0", ".", "5", "g", "b">>,
    <<"0", ".", "0", "0", "1", "T", "B">>, <<"0", "T", "B">>,
    <<"5", "0", "0", " ", "M", "B">>, <<"1", ".", "5", " ", "k", "b">> }
RangeExamples == {
    <<"1", "0", "d", "-", "5", "0", "d">>,
    <<"9", "0", "d", "-", "3", "0", "d">>,
    <<"5", "0", "d", "-", "1", "0", "d">>, <<"7", "d", "-", "2", "w">>,
    <<"1", "d", "-", "2", "d", "-", "3", "d">>, <<"3", "0", "d", "-">>,
    <<"1", "0", "d", "-", "5", "x">> }

ParseInputs ==
    StringsUpTo(DurationAlphabet, MaxDurationLen)
        \cup StringsUpTo(SizeAlphabet, MaxSizeLen)
        \cup DurationExamples \cup SizeExamples \cup RangeExamples

Returned(f, v, lo, hi) ==
    [status |-> "returned", fn |-> f, value |-> v, min |-> lo, max |-> hi,
     message |-> "none"]
Threw(f, msg) ==
    [status |-> "threw", fn |-> f, value |-> 0, min |-> 0, max |-> 0,
     message |-> msg]

InitParse ==
    /\ parseInput \in ParseInputs
    /\ parseOutcome = [NoOutcome EXCEPT !.status = "pending"]
    /\ AgeIdle
    /\ ConfigIdle
    /\ CleanIdle
    /\ ScanIdle
    /\ DeepIdle
    /\ FilterIdle
    /\ WatchIdle

\* parseDuration(durationStr)
CallParseDuration ==
    /\ parseOutcome.status = "pending"
    /\ LET r == parseDuration(parseInput) IN
       parseOutcome' = IF r.ok THEN Returned("parseDuration", r.value, 0, 0)
                       ELSE Threw("parseDuration", "Invalid duration format")
    /\ UNCHANGED <<parseInput, ageVars, configVars, watchVars, pipelineVars>>

\* parseDurationRange(rangeStr): the range error when the split does not give
\* two parts, else whatever parseDuration throws for a part
CallParseDurationRange ==
    /\ parseOutcome.status = "pending"
    /\ LET r == parseDurationRange(parseInput) IN
       parseOutcome' =
           IF r.ok THEN Returned("parseDurationRange", 0, r.min, r.max)
           ELSE IF Len(Split(parseInput, "-")) # 2
                THEN Threw("parseDurationRange", "Invalid range format")
                ELSE Threw("parseDurationRange", "Invalid duration format")
    /\ UNCHANGED <<parseInput, ageVars, configVars, watchVars, pipelineVars>>

\* parseSize(sizeStr)
CallParseSize ==
    /\ parseOutcome.status = "pending"
    /\ LET r == parseSize(parseInput) IN
       parseOutcome' = IF r.ok THEN Returned("parseSize", r.value, 0, 0)
                       ELSE Threw("parseSize", "Invalid size format")
    /\ UNCHANGED <<parseInput, ageVars, configVars, watchVars, pipelineVars>>

NextParse ==
    \/ CallParseDuration
    \/ CallParseDurationRange
    \/ CallParseSize

SpecParse == InitParse /\ [][NextParse]_vars

-----------------------------------------------------------------------------
(* The grammars of durations and sizes *)

\* <integer>: one or more decimal digits
IsIntegerText(t) == Len(t) >= 1 /\ \A i \in 1..Len(t) : t[i] \in Digits

\* the days of one unit, for the unit letters of the grammar
UnitDays(u) ==
    CASE u = "d" -> 1 [] u = "w" -> 7 [] u = "m" -> 30 [] u = "y" -> 365

ToLower(c) ==
    CASE c = "D" -> "d" [] c = "W" -> "w" [] c = "M" -> "m" [] c = "Y" -> "y"
      [] OTHER -> c

\* <integer><unit> with the unit one of the letters of `units`
IsDurationText(s, units) ==
    /\ Len(s) >= 2
    /\ IsIntegerText(SubSeq(s, 1, Len(s) - 1))
    /\ s[Len(s)] \in units

\* what the grammar gives for a duration string: integer x days of the unit
DurationDays(s) ==
    DecimalValue(SubSeq(s, 1, Len(s) - 1)) * UnitDays(ToLower(s[Len(s)]))

DurationCall == parseOutcome.fn = "parseDuration"

\* C21: parseDuration accepts exactly the strings <integer><unit> with the
\* unit one of d, w, m, y, returns integer x {1, 7, 30, 365} for them, and
\* throws an Invalid duration format error for every other string.
C21_ExactlyLowerCaseUnits ==
    DurationCall =>
        IF IsDurationText(parseInput, {"d", "w", "m", "y"})
        THEN /\ parseOutcome.status = "returned"
             /\ parseOutcome.value = DurationDays(parseInput)
        ELSE /\ parseOutcome.status = "threw"
             /\ parseOutcome.message = "Invalid duration format"

\* C21 as the code has it: the unit letter is matched without regard to
\* case, so D, W, M and Y are units too; everything else is as stated.
C21_UnitsOfEitherCase ==
    DurationCall =>
        IF IsDurationText(parseInput, {"d", "w", "m", "y", "D", "W", "M", "Y"})
        THEN /\ parseOutcome.status = "returned"
             /\ parseOutcome.value = DurationDays(parseInput)
        ELSE /\ parseOutcome.status = "threw"
             /\ parseOutcome.message = "Invalid duration format"

\* a two-week duration was parsed to 14
C21_Witness ==
    /\ DurationCall
    /\ parseInput = <<"2", "w">>
    /\ parseOutcome.status = "returned"
    /\ parseOutcome.value = 14

\* a bare integer was rejected
C21_WitnessThrows ==
    /\ DurationCall
    /\ parseInput = <<"3", "0">>
    /\ parseOutcome.status = "threw"

\* an upper-case unit was accepted
C21_UpperCaseAccepted ==
    /\ DurationCall
    /\ parseInput = <<"3", "0", "D">>
    /\ parseOutcome.status = "returned"
    /\ parseOutcome.value = 30

\* <number>: digits, optionally followed by a point and digits
IsNumberText(t) ==
    \/ IsIntegerText(t)
    \/ \E i \in 1..Len(t) :
           /\ t[i] = "."
           /\ IsIntegerText(SubSeq(t, 1, i - 1))
           /\ IsIntegerText(SubSeq(t, i + 1, Len(t)))

IsUnitText(u) == u = <<>> \/ UpperSeq(u) \in SizeUnits

IsBlank(t) == \A i \in 1..Len(t) : t[i] = " "

\* the ways to cut s into <number>, blanks and <unit>?
SizeCuts(s, maxBlanks) ==
    { c \in (0..Len(s)) \X (0..Len(s)) :
          /\ c[1] <= c[2]
          /\ c[2] - c[1] <= maxBlanks
          /\ IsNumberText(SubSeq(s, 1, c[1]))
          /\ IsBlank(SubSeq(s, c[1] + 1, c[2]))
          /\ IsUnitText(SubSeq(s, c[2] + 1, Len(s))) }

IsSizeText(s, maxBlanks) == SizeCuts(s, maxBlanks) # {}

\* the digits of a number with the point taken out, and how many follow it
NumberDigits(t) == SelectSeq(t, LAMBDA c : c # ".")
DecimalPlaces(t) ==
    IF \E i \in 1..Len(t) : t[i] = "."
    THEN Len(t) - (CHOOSE i \in 1..Len(t) : t[i] = ".")
    ELSE 0

RECURSIVE Pow(_, _)
Pow(b, k) == IF k = 0 THEN 1 ELSE b * Pow(b, k - 1)

\* the sizes of the examples that exceed what the products below can hold
LargeSizes == {
    <<<<"1", "G", "B">>, 1073741824>>,
    <<<<"1", ".", "5", "G", "B">>, 1610612736>>,
    <<<<"0", ".", "5", "g", "b">>, 536870912>>,
    <<<<"0", ".", "0", "0", "1", "T", "B">>, 1099511627>>,
    <<<<"0", "T", "B">>, 0>> }

\* r = floor(number x 1024^k): r <= number x 1024^k < r + 1, with the number
\* written as digits / 10^places
IsFloorOfSize(r, s, maxBlanks) ==
    LET c      == CHOOSE x \in SizeCuts(s, maxBlanks) : TRUE
        number == SubSeq(s, 1, c[1])
        unit   == UpperSeq(SubSeq(s, c[2] + 1, Len(s)))
        k      == SizeExponent(IF unit = <<>> THEN <<"B">> ELSE unit)
        digits == DecimalValue(NumberDigits(number))
        den    == Pow10(DecimalPlaces(number))
    IN IF k >= 3
       THEN <<s, r>> \in LargeSizes
       ELSE /\ r * den <= digits * Pow(1024, k)
            /\ digits * Pow(1024, k) < (r + 1) * den

SizeCall == parseOutcome.fn = "parseSize"

\* C22: parseSize returns floor(number x 1024^k) for <number><unit>? with the
\* unit one of B, KB, MB, GB, TB in either case (B when omitted), and throws
\* on every other input.
C22_FloorOfNumberTimesUnit ==
    SizeCall =>
        IF IsSizeText(parseInput, 0)
        THEN /\ parseOutcome.status = "returned"
             /\ IsFloorOfSize(parseOutcome.value, parseInput, 0)
        ELSE /\ parseOutcome.status = "threw"
             /\ parseOutcome.message = "Invalid size format"

\* C22 as the code has it: blanks may stand between the number and the
\* unit; everything else is as stated.
C22_BlanksBeforeUnit ==
    SizeCall =>
        IF IsSizeText(parseInput, Len(parseInput))
        THEN /\ parseOutcome.status = "returned"
             /\ IsFloorOfSize(parseOutcome.value, parseInput, Len(parseInput))
        ELSE /\ parseOutcome.status = "threw"
             /\ parseOutcome.message = "Invalid size format"

\* one and a half kilobytes were parsed to 1536
C22_Witness ==
    /\ SizeCall
    /\ parseInput = <<"1", ".", "5", "K", "B">>
    /\ parseOutcome.status = "returned"
    /\ parseOutcome.value = 1536

\* a fraction of a terabyte was floored
C22_WitnessTerabyte ==
    /\ SizeCall
    /\ parseInput = <<"0", ".", "0", "0", "1", "T", "B">>
    /\ parseOutcome.value = 1099511627

\* a size with a blank before the unit was accepted
C22_BlankAccepted ==
    /\ SizeCall
    /\ parseInput = <<"5", "0", "0", " ", "M", "B">>
    /\ parseOutcome.status = "returned"
    /\ parseOutcome.value = 524288000


-----------------------------------------------------------------------------
(* scanner.ts getNodeModulesInfo: lastModified and ageDays of a record *)

\* the clock and the modification time range over 0..MaxClock half days
MaxClock == 8

\* a day, in the half days the clock counts
HalfDaysPerDay == 2

\* dayjs absFloor: the quotient truncated toward zero
AbsFloor(n, d) == IF n < 0 THEN -((-n) \div d) ELSE n \div d

\* getAgeDays(date): dayjs().diff(dayjs(date), 'day') at clock reading `now`
getAgeDays(date, now) == AbsFloor(now - date, HalfDaysPerDay)

\* getLastModified(folderPath): stats.mtime, or new Date() when stat throws
getLastModified(stat, now) == IF stat.readable THEN stat.at ELSE now

InitAge ==
    /\ clock \in 0..MaxClock
    /\ mtime \in [readable : BOOLEAN, at : 0..MaxClock]
    /\ info = [status |-> "start", lastModified |-> 0, ageDays |-> 0]
    /\ ParseIdle
    /\ ConfigIdle
    /\ CleanIdle
    /\ ScanIdle
    /\ DeepIdle
    /\ FilterIdle
    /\ WatchIdle

\* const lastModified = await getLastModified(nodeModulesPath)
StatLastModified ==
    /\ info.status = "start"
    /\ info' = [info EXCEPT !.status = "stated",
                            !.lastModified = getLastModified(mtime, clock)]
    /\ UNCHANGED <<clock, mtime, parseVars, configVars, watchVars, pipelineVars>>

\* the clock advances while the call is suspended
Tick ==
    /\ info.status # "done"
    /\ clock < MaxClock
    /\ clock' = clock + 1
    /\ UNCHANGED <<mtime, info, parseVars, configVars, watchVars, pipelineVars>>

\* const ageDays = getAgeDays(lastModified)
ComputeAgeDays ==
    /\ info.status = "stated"
    /\ info' = [info EXCEPT !.status = "done",
                            !.ageDays = getAgeDays(info.lastModified, clock)]
    /\ UNCHANGED <<clock, mtime, parseVars, configVars, watchVars, pipelineVars>>

NextAge ==
    \/ StatLastModified
    \/ Tick
    \/ ComputeAgeDays

SpecAge == InitAge /\ [][NextAge]_vars

-----------------------------------------------------------------------------
(* The age of a record *)

\* C23: every record has ageDays >= 0, whatever modification time the
\* filesystem reports for the directory (one later than the current clock
\* included) and when the modification time cannot be read.
C23_AgeNeverNegative ==
    info.status = "done" => info.ageDays >= 0

\* The part of C23 that the code keeps: the age is not negative when the
\* modification time cannot be read or is not later than the clock.
C23_AgeNotNegativeUnlessFuture ==
    (info.status = "done" /\ (~mtime.readable \/ mtime.at <= clock)) =>
        info.ageDays >= 0

\* a directory modified two days from now got the age -2
C23_FutureMtime ==
    /\ info.status = "done"
    /\ mtime.readable
    /\ mtime.at = clock + 2 * HalfDaysPerDay
    /\ info.ageDays = -2

-----------------------------------------------------------------------------
(* config.ts: mergeOptions *)

\* JavaScript truthiness of an optional number: undefined and 0 are falsy
TruthyNum(n) == n # UndefinedNum /\ n # 0

\* String.prototype.trim, for blanks
RECURSIVE Trim(_)
Trim(s) ==
    IF s # <<>> /\ Head(s) = " " THEN Trim(Tail(s))
    ELSE IF s # <<>> /\ s[Len(s)] = " " THEN Trim(SubSeq(s, 1, Len(s) - 1))
    ELSE s

\* [...new Set(list)]: the first occurrence of each element, in order
RECURSIVE Unique(_)
Unique(list) ==
    IF list = <<>> THEN <<>>
    ELSE LET front == Unique(SubSeq(list, 1, Len(list) - 1))
             last  == list[Len(list)]
         IN IF \E i \in 1..Len(front) : front[i] = last THEN front
            ELSE Append(front, last)

\* Array.prototype.join(',')
RECURSIVE Join(_)
Join(list) ==
    IF list = <<>> THEN <<>>
    ELSE IF Len(list) = 1 THEN list[1]
    ELSE list[1] \o <<",">> \o Join(Tail(list))

\* the merged exclude option: CLI patterns first, then the config's
MergedExclude(cliExclude, configExclude) ==
    LET text        == IF Truthy(cliExclude) THEN cliExclude ELSE <<>>
        parts       == Split(text, ",")
        cliPatterns == IF text # <<>>
                       THEN [i \in 1..Len(parts) |-> Trim(parts[i])]
                       ELSE <<>>
    IN Join(Unique(cliPatterns \o configExclude))

\* mergeOptions(cliOptions, config)
mergeOptions(cli, cfg) ==
    [path      |-> IF ~Truthy(cli.path) /\ Truthy(cfg.defaultPath)
                   THEN cfg.defaultPath ELSE cli.path,
     depth     |-> IF ~TruthyNum(cli.depth) /\ TruthyNum(cfg.defaultDepth)
                   THEN cfg.defaultDepth ELSE cli.depth,
     olderThan |-> IF ~Truthy(cli.olderThan) /\ Truthy(cfg.defaultOlderThan)
                   THEN cfg.defaultOlderThan ELSE cli.olderThan,
     lang      |-> IF ~Truthy(cli.lang) /\ Truthy(cfg.lang)
                   THEN cfg.lang ELSE cli.lang,
     exclude   |-> IF Len(cfg.exclude) > 0
                   THEN MergedExclude(cli.exclude, cfg.exclude)
                   ELSE cli.exclude]

CliPath == <<"/", "c", "l", "i">>
ConfigPath == <<"/", "c", "f", "g">>
PatternA == <<"a">>
PatternB == <<"b">>
PatternC == <<"c">>

CliOptionInputs ==
    [path      : {Undefined, <<>>, CliPath},
     depth     : {UndefinedNum, 0, 3},
     olderThan : {Undefined, <<"6", "0", "d">>},
     lang      : {Undefined, <<"v", "i">>},
     exclude   : {Undefined, PatternA, <<"a", ",", " ", "b">>}]

ConfigInputs ==
    [exclude          : {<<>>, <<PatternB>>, <<PatternB, PatternC>>},
     defaultOlderThan : {Undefined, <<"3", "0", "d">>},
     defaultPath      : {Undefined, ConfigPath},
     defaultDepth     : {UndefinedNum, 0, 5},
     lang             : {<<"e", "n">>, <<"f", "r">>}]

InitConfig ==
    /\ cliOptions \in CliOptionInputs
    /\ config \in ConfigInputs
    /\ merged = [defined |-> FALSE, options |-> NoCliOptions]
    /\ ParseIdle
    /\ AgeIdle
    /\ CleanIdle
    /\ ScanIdle
    /\ DeepIdle
    /\ FilterIdle
    /\ WatchIdle

\* const merged = mergeOptions(cliOptions, config)
CallMergeOptions ==
    /\ ~merged.defined
    /\ merged' = [defined |-> TRUE, options |-> mergeOptions(cliOptions, config)]
    /\ UNCHANGED <<cliOptions, config, parseVars, ageVars, watchVars,
                   pipelineVars>>

NextConfig == CallMergeOptions

SpecConfig == InitConfig /\ [][NextConfig]_vars

-----------------------------------------------------------------------------
(* Precedence of the command line over the config file *)

\* the option was given on the command line
Provided(s) == s # Undefined
ProvidedNum(n) == n # UndefinedNum

\* C26: for path, depth, olderThan and lang the merged value is the CLI
\* value whenever the CLI option was provided; the config default is used
\* only when it was not.
C26_CliTakesPrecedence ==
    merged.defined =>
        /\ merged.options.path =
               IF Provided(cliOptions.path) THEN cliOptions.path
               ELSE config.defaultPath
        /\ merged.options.depth =
               IF ProvidedNum(cliOptions.depth) THEN cliOptions.depth
               ELSE config.defaultDepth
        /\ merged.options.olderThan =
               IF Provided(cliOptions.olderThan) THEN cliOptions.olderThan
               ELSE config.defaultOlderThan
        /\ merged.options.lang =
               IF Provided(cliOptions.lang) THEN cliOptions.lang
               ELSE config.lang

\* The part of C26 that the code keeps: a CLI value that is neither 0 nor
\* the empty string is never replaced, and a missing one takes the config's
\* default when the default is itself neither 0 nor empty.
C26_TruthyCliTakesPrecedence ==
    merged.defined =>
        /\ Truthy(cliOptions.path) => merged.options.path = cliOptions.path
        /\ TruthyNum(cliOptions.depth) =>
               merged.options.depth = cliOptions.depth
        /\ Truthy(cliOptions.olderThan) =>
               merged.options.olderThan = cliOptions.olderThan
        /\ Truthy(cliOptions.lang) => merged.options.lang = cliOptions.lang
        /\ (~Provided(cliOptions.path) /\ Truthy(config.defaultPath)) =>
               merged.options.path = config.defaultPath
        /\ (~ProvidedNum(cliOptions.depth) /\ TruthyNum(config.defaultDepth)) =>
               merged.options.depth = config.defaultDepth
        /\ (~Provided(cliOptions.olderThan) /\ Truthy(config.defaultOlderThan)) =>
               merged.options.olderThan = config.defaultOlderThan
        /\ ~Provided(cliOptions.lang) => merged.options.lang = config.lang

\* a depth of 0 given on the command line was replaced by the config's 5
C26_DepthZeroOverridden ==
    /\ merged.defined
    /\ cliOptions.depth = 0
    /\ config.defaultDepth = 5
    /\ merged.options.depth = 5

\* the exclude patterns of both sides were merged, the CLI's first
C26_ExcludeMerged ==
    /\ merged.defined
    /\ cliOptions.exclude = <<"a", ",", " ", "b">>
    /\ config.exclude = <<PatternB, PatternC>>
    /\ merged.options.exclude = <<"a", ",", "b", ",", "c">>

-----------------------------------------------------------------------------
(* deepClean and the package count of the metadata collector *)

\* the entries countPackages counts: the items of node_modules that are
\* not hidden, each scope replaced by its items that are not hidden
CountedEntries(d) ==
    { p \in d :
        \/ Len(p) = 1 /\ ~StartsWithDot(p[1]) /\ p[1][1] # "@"
        \/ Len(p) = 2 /\ p[1][1] = "@" /\ ~StartsWithDot(p[2]) }

\* C27: deepClean visits the package entries that countPackages counts for
\* the same node_modules (scopes expanded one level, hidden entries skipped
\* at both levels), and processedFolders equals packageCount.
C27_VisitsWhatIsCounted ==
    deepPc \notin {"idle", "start"} =>
        /\ Range(packages) = CountedEntries(disk0)
        /\ deepResult.processedFolders = countPackages(disk0)

\* node_modules holds only what a package manager puts there: directories
\* at the top level and no hidden entry inside a scope
OnlyPackages(d) ==
    \A p \in d :
        /\ (Len(p) = 1 /\ ~StartsWithDot(p[1])) => IsDirectory(d, p)
        /\ (Len(p) = 2 /\ p[1][1] = "@") => ~StartsWithDot(p[2])

\* The part of C27 that the code keeps: the two enumerations agree when the
\* top level holds no plain file and no scope holds a hidden entry.
C27_AgreeOnPackagesOnly ==
    (deepPc \notin {"idle", "start"} /\ OnlyPackages(disk0)) =>
        /\ Range(packages) = CountedEntries(disk0)
        /\ deepResult.processedFolders = countPackages(disk0)

\* a hidden entry inside a scope was visited as a package and not counted
C27_HiddenScopedEntryVisited ==
    /\ deepPc \notin {"idle", "start"}
    /\ <<Scope, DotBin>> \in Range(packages)
    /\ <<Scope, Sub>> \in Range(packages)
    /\ deepResult.processedFolders = 2
    /\ countPackages(disk0) = 1

\* a scope with a package next to a plain package: both visited and counted
C27_ScopeExpanded ==
    /\ deepPc \notin {"idle", "start"}
    /\ Range(packages) = {<<Pkg>>, <<Scope, Sub>>}
    /\ countPackages(disk0) = 2

-----------------------------------------------------------------------------
(* cleanNodeModules with a reversed `between` range *)

\* the other filter strings of the call are well formed
OthersWellFormed(opts) ==
    /\ Supplied(opts.olderThan) => parseDuration(opts.olderThan).ok
    /\ Supplied(opts.minSize) => parseSize(opts.minSize).ok
    /\ Supplied(opts.maxSize) => parseSize(opts.maxSize).ok

\* C30: a `between` range whose minimum exceeds its maximum is accepted
\* without a parse error and selects no record, so the call deletes nothing
\* and reports deletedCount 0.
C30_ReversedRangeSelectsNothing ==
    (options.between = ReversedBetween /\ OthersWellFormed(options)
        /\ pc # "start") =>
        /\ thrown \notin ParseErrors
        /\ filteredFolders = <<>>
        /\ fs = InitialFs(folders)
        /\ pc = "done" => /\ result.deletedCount = 0
                          /\ result.freedBytes = 0
                          /\ result.deletedPaths = <<>>
                          /\ result.errors = <<>>

\* a live call over three records with the reversed range returned with
\* nothing deleted
C30_Witness ==
    /\ options.between = ReversedBetween
    /\ LiveDone
    /\ Len(folders) = 3
    /\ \E i \in 1..3 : folders[i].ageDays = 50
    /\ thrown = "none"
    /\ result.deletedCount = 0
    /\ fs = InitialFs(folders)

-----------------------------------------------------------------------------
(* cleanNodeModules under fair scheduling *)

\* a call with no filter string: the records passed in are the records
\* acted on
InitLive ==
    /\ Init
    /\ options.olderThan = Undefined
    /\ options.between = Undefined
    /\ options.minSize = Undefined
    /\ options.maxSize = Undefined

\* the event loop runs every continuation that is ready: a queued task is
\* started when a slot is free, a delete in flight settles, and Promise.all
\* resolves once every task has settled
LiveFairness ==
    /\ WF_vars(StartTask)
    /\ WF_vars(SettleTask)
    /\ WF_vars(Return)

SpecLive == InitLive /\ [][Next]_vars /\ LiveFairness

\* every filtered record is in deletedPaths or in errors
AllAccounted ==
    /\ queue = <<>>
    /\ active = {}
    /\ result.deletedCount + Len(result.errors) = Len(filteredFolders)
    /\ Range(result.deletedPaths) \cup ErrorPaths(result)
           = Range(Paths(filteredFolders))

\* C28: under fair scheduling, with every delete settling eventually, a
\* live call that has reached the deletion stage returns: every queued task
\* is started and the call completes with every filtered record accounted
\* for, whatever the parallelism and whichever deletions fail.
C28_LiveCallReturns ==
    (pc = "deleting") ~> (pc = "done" /\ AllAccounted)

\* a live call over three records at parallelism 1 returned with a failure
\* among its deletions
C28_Witness ==
    /\ LiveDone
    /\ ParallelLimit(options) = 1
    /\ Len(filteredFolders) = 3
    /\ result.deletedCount = 2
    /\ Len(result.errors) = 1
    /\ AllAccounted

-----------------------------------------------------------------------------
(* watch.ts and schedule.ts: the periodic commands *)

\* the node_modules directories that can stand below the watched path:
\* path, bytes on disk, age in days
WatchDirs ==
    << [path |-> "/a/node_modules", size |-> 100, ageDays |-> 40],
       [path |-> "/b/node_modules", size |-> 50, ageDays |-> 10] >>

\* the bytes a directory holds on disk
DirBytes(p) ==
    (CHOOSE d \in Range(WatchDirs) : d.path = p).size

\* scanNodeModules({path, depth, quick}): one record per directory on disk,
\* largest first; getNodeModulesInfo leaves size at 0 under quick
ScanRecords(onDisk, quick) ==
    LET There(d) == d.path \in onDisk
        found == SelectSeq(WatchDirs, There)
    IN [n \in 1..Len(found) |->
           [found[n] EXCEPT !.size = IF quick THEN 0 ELSE found[n].size]]

\* parseOlderThanDays(olderThan)
parseOlderThanDays(olderThan) ==
    IF Truthy(olderThan) THEN parseDuration(olderThan).value ELSE UndefinedNum

\* watch.ts: folders.filter(f => f.ageDays >= olderThanDays)
WatchAgeFilter(fl, olderThanDays) ==
    IF olderThanDays # UndefinedNum
    THEN SelectSeq(fl, LAMBDA f : f.ageDays >= olderThanDays)
    ELSE fl

\* schedule.ts: filterByAge(folders, olderThanDays)
ScheduleAgeFilter(fl, olderThanDays) ==
    IF olderThanDays # UndefinedNum
    THEN filterByAge(fl, olderThanDays, UndefinedNum)
    ELSE fl

\* performScan that cleans whenever auto-clean is on
ShouldAutoCleanIgnoringDryRun(opts) == opts.onClean

\* performScan: if (options.onClean && !options.dryRun)
ShouldAutoClean(opts) == opts.onClean /\ ~opts.dryRun

\* runScheduledCleanup: the pass goes on to cleanNodeModules unless
\* options.dryRun
ShouldClean(opts) == ~opts.dryRun

\* cleanNodeModules(folders, {fast: true}) with the deletions of `failing`
\* rejected: no filter, no backup, one deletion at a time
cleanResult(fl, failing) ==
    LET F[n \in 0..Len(fl)] ==
            IF n = 0 THEN EmptyResult
            ELSE IF n \in failing
                 THEN RecordFailure(F[n - 1], fl[n], "Command failed: timeout")
                 ELSE RecordSuccess(F[n - 1], fl[n])
    IN F[Len(fl)]

\* the passes whose performScan / runScheduledCleanup has not returned
InFlight == { i \in 1..MaxPasses : passes[i].pc \in {"scanning", "cleaning"} }

Returns(found, cleaned, freed, errors) ==
    [found |-> found, cleaned |-> cleaned, freed |-> freed, errors |-> errors]

InitWatch ==
    /\ job \in {"watch", "schedule"}
    /\ \E olderThan \in {Undefined, <<"3", "0", "d">>} :
          watchOptions \in [onClean : BOOLEAN, dryRun : BOOLEAN,
                            olderThanDays : {parseOlderThanDays(olderThan)}]
    /\ present \in SUBSET { WatchDirs[n].path : n \in 1..Len(WatchDirs) }
    /\ state = createInitialState
    /\ passes = [i \in 1..MaxPasses |-> NoPass]
    /\ cleanCalls = 0
    /\ removed = [dirs |-> 0, bytes |-> 0]
    /\ overlapped = FALSE
    /\ stopped = NotStopped
    /\ ParseIdle
    /\ AgeIdle
    /\ ConfigIdle
    /\ CleanIdle
    /\ ScanIdle
    /\ DeepIdle
    /\ FilterIdle

\* A pass begins.  startWatch awaits the initial performScan and only then
\* calls setInterval; from then on the timer calls performScan on every tick,
\* whether or not the pass before has returned.  The cron job calls
\* runScheduledCleanup on every tick likewise.
StartPass(i) ==
    /\ job # "none"
    /\ ~stopped.defined
    /\ passes[i].pc = "waiting"
    /\ \A j \in 1..(i - 1) : passes[j].pc # "waiting"
    /\ (job = "watch" /\ i > 1) => passes[1].pc = "returned"
    /\ passes' = [passes EXCEPT ![i].pc = "scanning"]
    /\ overlapped' = (overlapped \/ InFlight # {})
    /\ UNCHANGED <<job, watchOptions, present, state, cleanCalls, removed,
                   stopped>>
    /\ UNCHANGED <<parseVars, ageVars, configVars, pipelineVars>>

\* performScan from the return of scanNodeModules to its own return or to
\* the call of cleanNodeModules in performAutoClean
WatchScanned(i) ==
    /\ job = "watch"
    /\ ~stopped.defined
    /\ passes[i].pc = "scanning"
    /\ \E scanOk \in BOOLEAN :
        LET fl == WatchAgeFilter(ScanRecords(present, TRUE),
                                 watchOptions.olderThanDays)
        IN IF ~scanOk
           THEN /\ passes' = [passes EXCEPT ![i].pc = "returned",
                                            ![i].ret = Returns(0, 0, 0, 0)]
                /\ UNCHANGED <<state, cleanCalls>>
           ELSE /\ state' = [state EXCEPT !.foldersFound = Len(fl)]
                /\ IF Len(fl) = 0
                   THEN /\ passes' = [passes EXCEPT
                                         ![i].pc = "returned",
                                         ![i].ret = Returns(0, 0, 0, 0)]
                        /\ UNCHANGED cleanCalls
                   ELSE IF ShouldAutoClean(watchOptions)
                   THEN /\ passes' = [passes EXCEPT ![i].pc = "cleaning",
                                                    ![i].folders = fl]
                        /\ cleanCalls' = cleanCalls + 1
                   ELSE /\ passes' = [passes EXCEPT
                                         ![i].pc = "returned",
                                         ![i].folders = fl,
                                         ![i].ret = Returns(Len(fl), 0, 0, 0)]
                        /\ UNCHANGED cleanCalls
    /\ UNCHANGED <<job, watchOptions, present, removed, overlapped, stopped>>
    /\ UNCHANGED <<parseVars, ageVars, configVars, pipelineVars>>

\* performAutoClean from the return of cleanNodeModules, and the return of
\* performScan: rm -rf succeeds on a path that is already gone
WatchCleaned(i) ==
    /\ job = "watch"
    /\ ~stopped.defined
    /\ passes[i].pc = "cleaning"
    /\ \E failing \in SUBSET (1..Len(passes[i].folders)) :
        LET fl   == passes[i].folders
            res  == cleanResult(fl, failing)
            gone == Range(res.deletedPaths) \cap present
        IN /\ present' = present \ gone
           /\ removed' = [dirs |-> removed.dirs + Cardinality(gone),
                          bytes |-> removed.bytes
                                      + SumSize(ScanRecords(gone, FALSE))]
           /\ state' = [state EXCEPT
                           !.totalCleaned = @ + res.deletedCount,
                           !.totalFreed = @ + res.freedBytes]
           /\ passes' = [passes EXCEPT
                            ![i].pc = "returned",
                            ![i].ret = Returns(Len(fl), res.deletedCount,
                                               res.freedBytes, 0)]
    /\ UNCHANGED <<job, watchOptions, cleanCalls, overlapped, stopped>>
    /\ UNCHANGED <<parseVars, ageVars, configVars, pipelineVars>>

\* runScheduledCleanup from the return of scanNodeModules to its own return
\* or to the call of cleanNodeModules
ScheduleScanned(i) ==
    /\ job = "schedule"
    /\ ~stopped.defined
    /\ passes[i].pc = "scanning"
    /\ \E scanOk \in BOOLEAN :
        LET fl == ScheduleAgeFilter(ScanRecords(present, FALSE),
                                    watchOptions.olderThanDays)
        IN IF ~scanOk
           THEN /\ passes' = [passes EXCEPT ![i].pc = "returned",
                                            ![i].ret = Returns(0, 0, 0, 1)]
                /\ UNCHANGED <<state, cleanCalls>>
           ELSE /\ state' = [state EXCEPT !.totalRuns = @ + 1]
                /\ IF Len(fl) = 0 \/ ~ShouldClean(watchOptions)
                   THEN /\ passes' = [passes EXCEPT
                                         ![i].pc = "returned",
                                         ![i].folders = fl,
                                         ![i].ret = Returns(0, 0, 0, 0)]
                        /\ UNCHANGED cleanCalls
                   ELSE /\ passes' = [passes EXCEPT ![i].pc = "cleaning",
                                                    ![i].folders = fl]
                        /\ cleanCalls' = cleanCalls + 1
    /\ UNCHANGED <<job, watchOptions, present, removed, overlapped, stopped>>
    /\ UNCHANGED <<parseVars, ageVars, configVars, pipelineVars>>

\* runScheduledCleanup from the return of cleanNodeModules to its own return
ScheduleCleaned(i) ==
    /\ job = "schedule"
    /\ ~stopped.defined
    /\ passes[i].pc = "cleaning"
    /\ \E failing \in SUBSET (1..Len(passes[i].folders)) :
        LET fl   == passes[i].folders
            res  == cleanResult(fl, failing)
            gone == Range(res.deletedPaths) \cap present
        IN /\ present' = present \ gone
           /\ removed' = [dirs |-> removed.dirs + Cardinality(gone),
                          bytes |-> removed.bytes
                                      + SumSize(ScanRecords(gone, FALSE))]
           /\ state' = [state EXCEPT
                           !.totalCleaned = @ + res.deletedCount,
                           !.totalFreed = @ + res.freedBytes]
           /\ passes' = [passes EXCEPT
                            ![i].pc = "returned",
                            ![i].ret = Returns(0, res.deletedCount,
                                               res.freedBytes,
                                               Len(res.errors))]
    /\ UNCHANGED <<job, watchOptions, cleanCalls, overlapped, stopped>>
    /\ UNCHANGED <<parseVars, ageVars, configVars, pipelineVars>>

\* between two passes the user installs the dependencies of a project again
Reinstall(p) ==
    /\ job # "none"
    /\ ~stopped.defined
    /\ InFlight = {}
    /\ p \notin present
    /\ present' = present \cup {p}
    /\ UNCHANGED <<job, watchOptions, state, passes, cleanCalls, removed,
                   overlapped, stopped>>
    /\ UNCHANGED <<parseVars, ageVars, configVars, pipelineVars>>

\* SIGINT: the timer is cleared, the totals are printed, the process exits.
\* startWatch installs the handler after the initial pass.
Stop ==
    /\ job # "none"
    /\ ~stopped.defined
    /\ job = "watch" => passes[1].pc = "returned"
    /\ stopped' = [defined |-> TRUE, totalCleaned |-> state.totalCleaned,
                   totalFreed |-> state.totalFreed]
    /\ UNCHANGED <<job, watchOptions, present, state, passes, cleanCalls,
                   removed, overlapped>>
    /\ UNCHANGED <<parseVars, ageVars, configVars, pipelineVars>>

NextWatch ==
    \/ \E i \in 1..MaxPasses : StartPass(i)
    \/ \E i \in 1..MaxPasses : WatchScanned(i)
    \/ \E i \in 1..MaxPasses : WatchCleaned(i)
    \/ \E i \in 1..MaxPasses : ScheduleScanned(i)
    \/ \E i \in 1..MaxPasses : ScheduleCleaned(i)
    \/ \E p \in { WatchDirs[n].path : n \in 1..Len(WatchDirs) } : Reinstall(p)
    \/ Stop

SpecWatch == InitWatch /\ [][NextWatch]_vars

-----------------------------------------------------------------------------
(* The passes of the periodic commands *)

ReturnedPasses == { i \in 1..MaxPasses : passes[i].pc = "returned" }

\* C24: in a schedule pass and in a watch pass alike, with dryRun set
\* cleanNodeModules is never invoked and totalCleaned and totalFreed stay
\* as they were, auto-clean or not; the pass reports cleaned 0 and freed 0.
C24_DryRunNeverCleans ==
    (job \in {"watch", "schedule"} /\ watchOptions.dryRun) =>
        /\ cleanCalls = 0
        /\ \A i \in 1..MaxPasses : passes[i].pc # "cleaning"
        /\ state.totalCleaned = 0
        /\ state.totalFreed = 0
        /\ removed.dirs = 0
        /\ \A i \in ReturnedPasses :
               passes[i].ret.cleaned = 0 /\ passes[i].ret.freed = 0

\* a watch pass with auto-clean and dryRun found two directories and
\* cleaned none
C24_Witness ==
    /\ job = "watch"
    /\ watchOptions.dryRun
    /\ watchOptions.onClean
    /\ \E i \in ReturnedPasses :
          /\ passes[i].ret.found = 2
          /\ passes[i].ret.cleaned = 0
    /\ cleanCalls = 0

\* a schedule pass with dryRun found two directories and cleaned none
C24_WitnessSchedule ==
    /\ job = "schedule"
    /\ watchOptions.dryRun
    /\ \E i \in ReturnedPasses : Len(passes[i].folders) = 2
    /\ state.totalRuns >= 1
    /\ cleanCalls = 0

\* C25: in watch mode with auto-clean, totalCleaned is the number of
\* directories the passes removed and totalFreed the bytes those directories
\* held, after each pass and in the summary printed on stop.
C25_TotalsAreSumsOverPasses ==
    (job = "watch" /\ watchOptions.onClean /\ InFlight = {}) =>
        /\ state.totalCleaned = removed.dirs
        /\ state.totalFreed = removed.bytes
        /\ stopped.defined =>
               /\ stopped.totalCleaned = removed.dirs
               /\ stopped.totalFreed = removed.bytes

\* The part of C25 that the code keeps: while no two passes have overlapped,
\* totalCleaned is the number of directories removed, and the summary shows
\* the totals of the state.
C25_CountIsSumWhileSerial ==
    (job = "watch" /\ watchOptions.onClean /\ ~overlapped) =>
        /\ state.totalCleaned = removed.dirs
        /\ stopped.defined =>
               /\ stopped.totalCleaned = state.totalCleaned
               /\ stopped.totalFreed = state.totalFreed

\* What the code does with the bytes: in watch mode totalFreed never leaves 0
C25_WatchFreesNoBytesOnRecord ==
    job = "watch" => state.totalFreed = 0

\* a watch pass removed a directory of 100 bytes and totalFreed is still 0
C25_BytesNotCounted ==
    /\ job = "watch"
    /\ InFlight = {}
    /\ removed.dirs = 1
    /\ removed.bytes = 100
    /\ state.totalCleaned = 1
    /\ state.totalFreed = 0

\* C29: the passes of a watch are serialized: at most one performScan is in
\* flight at any time, so that no directory is counted twice in the totals.
C29_PassesSerialized ==
    job = "watch" =>
        /\ Cardinality(InFlight) <= 1
        /\ ~overlapped
        /\ state.totalCleaned <= removed.dirs

\* The part of C29 that the code keeps: the initial pass runs alone.
C29_InitialPassAlone ==
    (job = "watch" /\ 1 \in InFlight) => InFlight = {1}

\* two overlapping passes both counted the one directory on disk
C29_CountedTwice ==
    /\ job = "watch"
    /\ overlapped
    /\ removed.dirs = 1
    /\ state.totalCleaned = 2

=============================================================================
